---- MODULE Spec2Model ----
(***************************************************************************)
(* sendu: an ephemeral token store and a WebSocket signaling relay         *)
(* (server.js, the last file of src/index.js, and its earlier revision     *)
(* src/unnamed/part_001), the /signal store of the first file of           *)
(* src/index.js, and the chunked file transfer of the browser client       *)
(* (client.js, src/unnamed/part_000).                                      *)
(*                                                                         *)
(* Node and the browser run every handler to completion on one thread, so  *)
(* each handler is one action.  Requests, timers, socket events and file   *)
(* reads are scheduled by the environment in any order.                    *)
(***************************************************************************)
EXTENDS Integers, Sequences, FiniteSets, TLC

VARIABLES
    \* ---- token store (server) ----
    tokens,      \* const tokens = new Map(): id -> token string
    timers,      \* pending setTimeout callbacks of /store: id -> due time (ms)
    issued,      \* the ids uuidv4() has returned, each with the token it was stored for
    now,         \* wall clock (ms)
    pending,     \* HTTP requests that have arrived and are not yet handled
    nreq,        \* number of HTTP requests that have arrived
    last,        \* the last handler run: the response sent, or the timer callback
    winners,     \* consume requests answered with a payload, each with its rivals
    peeked,      \* ids GET /t/:id has served a reveal page for
    \* ---- /signal store (server) ----
    SIGNAL_STORE, \* const SIGNAL_STORE = new Map(): token -> { sdp, timeout }
    sigTimers,    \* pending setTimeout callbacks of /signal: timer -> token and due time
    sigNow,       \* wall clock of the /signal server (ms)
    sigCount,     \* number of entries POST /signal has created (the last timer number)
    sigLast,      \* the last handler run of the /signal server
    sigServed,    \* per entry (named by its timer), how often GET /signal answered its sdp
    \* ---- signaling relay (server) ----
    server,      \* which revision runs: "index.js" (hardened) or "part_001"
    relayUp,     \* FALSE once an exception has escaped a handler
    clients,     \* const clients = new Set()
    readyState,  \* ws.readyState of every connection ("NEW": not yet connected)
    outbox,      \* per connection, the messages the relay has passed to its send()
    gone,        \* connections whose close or error handler has run -> nmsg at that time
    nmsg,        \* number of message events handled
    relayLast,   \* the last message event handled: its connection and its text
    \* ---- handshake, per browser tab (client) ----
    isInitiator,    \* let isInitiator = false
    peerConnection, \* let peerConnection = null: the RTCPeerConnection and its state
    dataChannel,    \* let dataChannel = null: the connection it was created on
    waiting,        \* what the flow suspended in waitForIceGatheringComplete will send
    tokenInput,     \* tokenInput.value: a token text or a short link
    orphans,        \* the connections the tab has replaced (they are never closed)
    inputEnabled,   \* !fileInput.disabled, as the connect handler sets it
    statusMessage,  \* the status line (showStatus): text and kind
    wsRead,         \* how many of the relay's messages ws.onmessage has handled
    npc,            \* number of RTCPeerConnection objects the tab has created
    \* ---- file transfer, sending tab (client) ----
    selectedFiles,     \* let selectedFiles = []
    dcState,           \* dataChannel.readyState ("none": dataChannel is null)
    fileInputDisabled, \* fileInput.disabled
    shareDisabled,     \* shareBtn.disabled
    currentFile,       \* let currentFile = null
    offset,            \* let offset = 0
    fileReader,        \* let fileReader = null: the number of the current FileReader
    reads,             \* reads in progress: FileReader number -> the slice it reads
    nshares,           \* number of sendFiles() runs
    sent,              \* the messages passed to dataChannel.send, in order
    txStatus,          \* the status line of the sending tab (showStatus)
    txErrors,          \* exceptions that escaped a handler of the sending tab
    \* ---- file transfer, receiving tab (client) ----
    fileMetadata,      \* let fileMetadata = null
    receivedSize,      \* let receivedSize = 0
    receivedChunks,    \* let receivedChunks = []
    downloads,         \* the downloadFile(blob, name) calls, in order
    rxStatus,          \* the status line of the receiving tab (showStatus)
    rxErrors,          \* exceptions that escaped receiveFile
    delivered          \* the messages the data channel has delivered, in order

storeVars == <<tokens, timers, issued, now, pending, nreq, last, winners, peeked>>

signalVars == <<SIGNAL_STORE, sigTimers, sigNow, sigCount, sigLast, sigServed>>

relayVars == <<server, relayUp, clients, readyState, outbox, gone, nmsg, relayLast>>

peerVars ==
    <<isInitiator, peerConnection, dataChannel, waiting, tokenInput, orphans,
      inputEnabled, statusMessage, wsRead, npc>>

senderVars ==
    <<selectedFiles, dcState, fileInputDisabled, shareDisabled, currentFile, offset,
      fileReader, reads, nshares, sent, txStatus, txErrors>>

receiverVars ==
    <<fileMetadata, receivedSize, receivedChunks, downloads, rxStatus, rxErrors, delivered>>

transferVars == <<senderVars, receiverVars>>

vars == <<storeVars, signalVars, relayVars, peerVars, transferVars>>

(***************************************************************************)
(* Bounds of the model.                                                    *)
(***************************************************************************)
MaxRequests == 3
MaxTicks == 3
MaxMessages == 2
MaxShares == 2
MaxDelivered == 4
MaxRxBytes == 2
MaxSignals == 3
MaxConnections == 2

\* The clock advances in steps of this many milliseconds.
TickMs == 300000

(***************************************************************************)
(* Values.                                                                 *)
(***************************************************************************)
\* JavaScript's undefined (a missing property).
Undefined == "undefined"

\* The ids uuidv4() can return.
Ids == {"id-a", "id-b"}

\* The values a request body's token property can hold.
Payloads == {"OFFER_SDP_X", "ANSWER_SDP_Y"}
BodyTokens == Payloads \cup {Undefined, ""}

\* JavaScript's !v for the values above.
Falsy(v) == v \in {Undefined, ""}

\* TTL for tokens (ms).
TOKEN_TTL == 10 * 60 * 1000

(***************************************************************************)
(* Map helpers.                                                            *)
(***************************************************************************)
\* Map.prototype.get: the value, or undefined.
MapGet(m, k) == IF k \in DOMAIN m THEN m[k] ELSE Undefined

\* Map.prototype.set.
MapSet(m, k, v) == [x \in DOMAIN m \cup {k} |-> IF x = k THEN v ELSE m[x]]

\* Map.prototype.delete: no effect when the key is absent.
MapDelete(m, k) == [x \in DOMAIN m \ {k} |-> m[x]]

EmptyMap == [x \in {} |-> Undefined]

(***************************************************************************)
(* HTTP requests of the token store.                                       *)
(***************************************************************************)
Requests ==
    [op : {"store"}, arg : BodyTokens] \cup [op : {"peek", "consume"}, arg : Ids]

\* A request reaches the server; it is handled later, in any order.
Arrive(q) ==
    /\ nreq < MaxRequests
    /\ q.op = "store" =>
         Cardinality(DOMAIN issued)
           + Cardinality({p \in pending : p.op = "store" /\ ~Falsy(p.arg)})
           < Cardinality(Ids)
    /\ nreq' = nreq + 1
    /\ pending' = pending \cup {[rid |-> nreq + 1, op |-> q.op, arg |-> q.arg]}
    /\ UNCHANGED <<tokens, timers, issued, now, last, winners, peeked>>

\* What a handler run answers.
Response(r, status, body) ==
    [rid |-> r.rid, op |-> r.op, arg |-> r.arg, status |-> status, body |-> body]

NoResponse == [rid |-> 0, op |-> "none", arg |-> Undefined, status |-> 0, body |-> <<>>]

\* A store route without the check for a missing token.
HandleStore_NoCheck(r) ==
    /\ r \in pending /\ r.op = "store"
    /\ pending' = pending \ {r}
    /\ \E id \in Ids \ DOMAIN issued :
            /\ issued' = MapSet(issued, id, r.arg)
            /\ tokens' = MapSet(tokens, id, r.arg)
            /\ timers' = MapSet(timers, id, now + TOKEN_TTL)
            /\ last' = Response(r, 200, [id |-> id])
    /\ UNCHANGED <<now, nreq, winners, peeked>>

\* app.post('/store')
HandleStore(r) ==
    /\ r \in pending /\ r.op = "store"
    /\ pending' = pending \ {r}
    /\ IF Falsy(r.arg)
       THEN /\ last' = Response(r, 400, [error |-> "Missing token"])
            /\ UNCHANGED <<tokens, timers, issued>>
       ELSE \E id \in Ids \ DOMAIN issued :
            /\ issued' = MapSet(issued, id, r.arg)
            /\ tokens' = MapSet(tokens, id, r.arg)
            /\ timers' = MapSet(timers, id, now + TOKEN_TTL)
            /\ last' = Response(r, 200, [id |-> id])
    /\ UNCHANGED <<now, nreq, winners, peeked>>

\* A peek that burns the token, as GET /signal/:token does.
HandlePeek_Consumes(r) ==
    /\ r \in pending /\ r.op = "peek"
    /\ pending' = pending \ {r}
    /\ LET token == MapGet(tokens, r.arg) IN
       IF Falsy(token)
       THEN /\ last' = Response(r, 404, [page |-> "expired"])
            /\ UNCHANGED <<tokens, peeked>>
       ELSE /\ tokens' = MapDelete(tokens, r.arg)
            /\ last' = Response(r, 200, [page |-> "reveal", id |-> r.arg])
            /\ peeked' = peeked \cup {r.arg}
    /\ UNCHANGED <<timers, issued, now, nreq, winners>>

\* app.get('/t/:id')
HandlePeek(r) ==
    /\ r \in pending /\ r.op = "peek"
    /\ pending' = pending \ {r}
    /\ LET token == MapGet(tokens, r.arg) IN
       IF Falsy(token)
       THEN /\ last' = Response(r, 404, [page |-> "expired"])
            /\ UNCHANGED peeked
       ELSE /\ last' = Response(r, 200, [page |-> "reveal", id |-> r.arg])
            /\ peeked' = peeked \cup {r.arg}
    /\ UNCHANGED <<tokens, timers, issued, now, nreq, winners>>

\* The other consume requests for the same id in flight when r is handled.
Rivals(r) == {p.rid : p \in {q \in pending : q.op = "consume" /\ q.arg = r.arg /\ q # r}}

\* A consume that answers with the payload and leaves the entry in the map.
HandleConsume_KeepsEntry(r) ==
    /\ r \in pending /\ r.op = "consume"
    /\ pending' = pending \ {r}
    /\ LET token == MapGet(tokens, r.arg) IN
       IF Falsy(token)
       THEN /\ last' = Response(r, 200, [error |-> "expired"])
            /\ UNCHANGED <<tokens, winners>>
       ELSE /\ UNCHANGED tokens
            /\ last' = Response(r, 200, [token |-> token])
            /\ winners' = winners \cup {[rid |-> r.rid, id |-> r.arg, rivals |-> Rivals(r)]}
    /\ UNCHANGED <<timers, issued, now, nreq, peeked>>

\* A consume whose delete is put off while another consume of the id is in flight
\* (a check and a delete that are not one atomic step).
HandleConsume_DeferredDelete(r) ==
    /\ r \in pending /\ r.op = "consume"
    /\ pending' = pending \ {r}
    /\ LET token == MapGet(tokens, r.arg) IN
       IF Falsy(token)
       THEN /\ last' = Response(r, 200, [error |-> "expired"])
            /\ UNCHANGED <<tokens, winners>>
       ELSE /\ tokens' = IF Rivals(r) = {} THEN MapDelete(tokens, r.arg) ELSE tokens
            /\ last' = Response(r, 200, [token |-> token])
            /\ winners' = winners \cup {[rid |-> r.rid, id |-> r.arg, rivals |-> Rivals(r)]}
    /\ UNCHANGED <<timers, issued, now, nreq, peeked>>

\* app.get('/consume/:id')
HandleConsume(r) ==
    /\ r \in pending /\ r.op = "consume"
    /\ pending' = pending \ {r}
    /\ LET token == MapGet(tokens, r.arg) IN
       IF Falsy(token)
       THEN /\ last' = Response(r, 200, [error |-> "expired"])
            /\ UNCHANGED <<tokens, winners>>
       ELSE /\ tokens' = MapDelete(tokens, r.arg)
            /\ last' = Response(r, 200, [token |-> token])
            /\ winners' = winners \cup {[rid |-> r.rid, id |-> r.arg, rivals |-> Rivals(r)]}
    /\ UNCHANGED <<timers, issued, now, nreq, peeked>>

\* A timer callback that deletes nothing.
Expire_DeletesNothing(id) ==
    /\ id \in DOMAIN timers
    /\ now >= timers[id]
    /\ timers' = MapDelete(timers, id)
    /\ last' = [rid |-> 0, op |-> "expire", arg |-> id, status |-> 0, body |-> <<>>]
    /\ UNCHANGED <<tokens, issued, now, pending, nreq, winners, peeked>>

\* setTimeout(() => tokens.delete(id), TOKEN_TTL): runs once, no earlier than due.
Expire(id) ==
    /\ id \in DOMAIN timers
    /\ now >= timers[id]
    /\ tokens' = MapDelete(tokens, id)
    /\ timers' = MapDelete(timers, id)
    /\ last' = [rid |-> 0, op |-> "expire", arg |-> id, status |-> 0, body |-> <<>>]
    /\ UNCHANGED <<issued, now, pending, nreq, winners, peeked>>

\* Time passes.
Tick ==
    /\ now < MaxTicks * TickMs
    /\ now' = now + TickMs
    /\ UNCHANGED <<tokens, timers, issued, pending, nreq, last, winners, peeked>>

StoreInit ==
    /\ tokens = EmptyMap
    /\ timers = EmptyMap
    /\ issued = EmptyMap
    /\ now = 0
    /\ pending = {}
    /\ nreq = 0
    /\ last = NoResponse
    /\ winners = {}
    /\ peeked = {}

StoreStep ==
    \/ \E q \in Requests : Arrive(q)
    \/ \E r \in pending : HandleStore(r)
    \/ \E r \in pending : HandlePeek(r)
    \/ \E r \in pending : HandleConsume(r)
    \/ \E id \in Ids : Expire(id)
    \/ Tick

(***************************************************************************)
(* The signaling relay: wss.on('connection') and the handlers it installs. *)
(***************************************************************************)
\* The WebSocket connections (ws objects) that can exist.
Conns == {"ws1", "ws2", "ws3"}

\* The revisions of the relay in the repository.
Servers == {"index.js", "part_001"}

\* The texts a client can send.  json is what JSON.parse makes of the text;
\* for an object, type is its type property and value its offer, answer or
\* candidate property (Undefined: the property is missing).
RawMessages ==
    [json : {"object"}, type : {"offer", "answer"}, value : {"desc-1"}]
    \cup [json : {"object"}, type : {"ice-candidate"}, value : {"cand-1"}]
    \cup [json : {"object"}, type : {"bye", Undefined}, value : {Undefined}]
    \cup [json : {"null", "number", "invalid"}, type : {Undefined}, value : {Undefined}]

\* The outcome of evaluating an expression: a value, or an exception.
Returns(v) == [threw |-> FALSE, value |-> v]

Throws == [threw |-> TRUE, value |-> Undefined]

\* JSON.parse(txt): throws a SyntaxError on text that is not JSON.
JSONParse(raw) == IF raw.json = "invalid" THEN Throws ELSE Returns(raw)

\* data.type: a TypeError on null, undefined on a number or on an object
\* that has no type property.
TypeOf(data) ==
    IF data.json = "null" THEN Throws
    ELSE IF data.json = "object" THEN Returns(data.type) ELSE Returns(Undefined)

\* A message as the relay serialises it: JSON.stringify drops a property
\* whose value is undefined, which Undefined stands for here.
Msg(type, value) == [type |-> type, value |-> value]

Welcome == Msg("connected", "Connected to signaling server")

ErrorMsg == Msg("error", "invalid message")

\* ws.send(m) on connection c.
Send(box, c, m) == [box EXCEPT ![c] = Append(@, m)]

\* A broadcast without the client !== ws test.
Broadcast_ToSenderToo(box, from, m) ==
    [d \in Conns |->
       IF d \in clients /\ readyState[d] = "OPEN"
       THEN Append(box[d], m) ELSE box[d]]

\* clients.forEach(client => { if (client !== ws && client.readyState === OPEN) client.send(m) })
Broadcast(box, from, m) ==
    [d \in Conns |->
       IF d \in clients /\ d # from /\ readyState[d] = "OPEN"
       THEN Append(box[d], m) ELSE box[d]]

\* A relay that forwards an offer or an answer to the other connections.
Dispatch_Forwards(c, raw) ==
    LET parsed == JSONParse(raw) IN
    IF parsed.threw THEN Throws
    ELSE LET data == parsed.value
             type == TypeOf(data)
         IN IF type.threw THEN Throws
            ELSE CASE type.value = "offer" ->
                        Returns(Broadcast(Send(outbox, c, Msg("offer-created", data.value)),
                                          c, Msg("offer", data.value)))
                   [] type.value = "answer" ->
                        Returns(Broadcast(Send(outbox, c, Msg("answer-created", data.value)),
                                          c, Msg("answer", data.value)))
                   [] type.value = "ice-candidate" ->
                        Returns(Broadcast(outbox, c, Msg("ice-candidate", data.value)))
                   [] OTHER -> Returns(outbox)

\* The body of the try block of ws.on('message'): the outbox it leaves, or
\* the exception it throws.
Dispatch(c, raw) ==
    LET parsed == JSONParse(raw) IN
    IF parsed.threw THEN Throws
    ELSE LET data == parsed.value
             type == TypeOf(data)
         IN IF type.threw THEN Throws
            ELSE CASE type.value = "offer" ->
                        Returns(Send(outbox, c, Msg("offer-created", data.value)))
                   [] type.value = "answer" ->
                        Returns(Send(outbox, c, Msg("answer-created", data.value)))
                   [] type.value = "ice-candidate" ->
                        Returns(Broadcast(outbox, c, Msg("ice-candidate", data.value)))
                   [] OTHER -> Returns(outbox)

\* The catch block of ws.on('message'): index.js notifies the client,
\* part_001 only logs.
Caught(c) == IF server = "index.js" THEN Send(outbox, c, ErrorMsg) ELSE outbox

\* wss.on('connection'): a new ws object, already open.
Connect(c) ==
    /\ relayUp
    /\ readyState[c] = "NEW"
    /\ readyState' = [readyState EXCEPT ![c] = "OPEN"]
    /\ clients' = clients \cup {c}
    /\ outbox' = Send(outbox, c, Welcome)
    /\ UNCHANGED <<server, relayUp, gone, nmsg, relayLast>>
    /\ UNCHANGED <<storeVars, signalVars, peerVars, transferVars>>

\* A message handler without its try/catch: the exception escapes.
OnMessage_NoCatch(c, raw) ==
    /\ relayUp
    /\ readyState[c] = "OPEN"
    /\ nmsg < MaxMessages
    /\ nmsg' = nmsg + 1
    /\ relayLast' = [conn |-> c, raw |-> raw]
    /\ relayUp' = ~Dispatch(c, raw).threw
    /\ outbox' = IF Dispatch(c, raw).threw THEN outbox ELSE Dispatch(c, raw).value
    /\ UNCHANGED <<server, clients, readyState, gone>>
    /\ UNCHANGED <<storeVars, signalVars, peerVars, transferVars>>

\* ws.on('message'): what it does to the relay.
Relayed(c, raw) ==
    /\ relayUp
    /\ readyState[c] = "OPEN"
    /\ nmsg < MaxMessages
    /\ nmsg' = nmsg + 1
    /\ relayLast' = [conn |-> c, raw |-> raw]
    /\ outbox' = IF Dispatch(c, raw).threw THEN Caught(c) ELSE Dispatch(c, raw).value
    /\ UNCHANGED <<server, relayUp, clients, readyState, gone>>

\* ws.on('message'), the text coming from any client.
OnMessage(c, raw) ==
    /\ Relayed(c, raw)
    /\ UNCHANGED <<storeVars, signalVars, peerVars, transferVars>>

\* The peer's close frame arrives: ws moves the connection to CLOSING and
\* emits no event yet.
BeginClose(c) ==
    /\ relayUp
    /\ readyState[c] = "OPEN"
    /\ readyState' = [readyState EXCEPT ![c] = "CLOSING"]
    /\ UNCHANGED <<server, relayUp, clients, outbox, gone, nmsg, relayLast>>
    /\ UNCHANGED <<storeVars, signalVars, peerVars, transferVars>>

\* ws.on('error'): ws closes the connection and emits 'close' afterwards.
OnError(c) ==
    /\ relayUp
    /\ readyState[c] \in {"OPEN", "CLOSING"}
    /\ readyState' = [readyState EXCEPT ![c] = "CLOSING"]
    /\ clients' = clients \ {c}
    /\ gone' = IF c \in DOMAIN gone THEN gone ELSE MapSet(gone, c, nmsg)
    /\ UNCHANGED <<server, relayUp, outbox, nmsg, relayLast>>
    /\ UNCHANGED <<storeVars, signalVars, peerVars, transferVars>>

\* A close handler that forgets clients.delete(ws).
OnClose_KeepsClient(c) ==
    /\ relayUp
    /\ readyState[c] \in {"OPEN", "CLOSING"}
    /\ readyState' = [readyState EXCEPT ![c] = "CLOSED"]
    /\ gone' = IF c \in DOMAIN gone THEN gone ELSE MapSet(gone, c, nmsg)
    /\ UNCHANGED <<server, relayUp, clients, outbox, nmsg, relayLast>>
    /\ UNCHANGED <<storeVars, signalVars, peerVars, transferVars>>

\* ws.on('close')
OnClose(c) ==
    /\ relayUp
    /\ readyState[c] \in {"OPEN", "CLOSING"}
    /\ readyState' = [readyState EXCEPT ![c] = "CLOSED"]
    /\ clients' = clients \ {c}
    /\ gone' = IF c \in DOMAIN gone THEN gone ELSE MapSet(gone, c, nmsg)
    /\ UNCHANGED <<server, relayUp, outbox, nmsg, relayLast>>
    /\ UNCHANGED <<storeVars, signalVars, peerVars, transferVars>>

NoMessage ==
    [conn |-> Undefined, raw |-> [json |-> "none", type |-> Undefined, value |-> Undefined]]

RelayInit ==
    /\ server \in Servers
    /\ relayUp = TRUE
    /\ clients = {}
    /\ readyState = [c \in Conns |-> "NEW"]
    /\ outbox = [c \in Conns |-> <<>>]
    /\ gone = EmptyMap
    /\ nmsg = 0
    /\ relayLast = NoMessage

\* The relay with no connection ever made.
RelayIdle == RelayInit /\ server = "index.js"

RelayNext ==
    \/ \E c \in Conns : Connect(c)
    \/ \E c \in Conns, raw \in RawMessages : OnMessage(c, raw)
    \/ \E c \in Conns : BeginClose(c)
    \/ \E c \in Conns : OnError(c)
    \/ \E c \in Conns : OnClose(c)

(***************************************************************************)
(* The /signal store (first file of src/index.js).                         *)
(***************************************************************************)
\* The tokens crypto.randomBytes(6).toString('base64url') can return.  The
\* route provides for a token that is already in the map.
SignalTokens == {"tok-a", "tok-b"}

\* The sdp property of a POST /signal body (Undefined: missing).
SignalBodies == Payloads \cup {Undefined, ""}

\* Auto-expiry of a /signal entry (ms).
SIGNAL_TTL == 2 * 60 * 1000

SignalResponse(op, token, status, body) ==
    [op |-> op, token |-> token, status |-> status, body |-> body, timer |-> 0]

\* app.post('/signal'): token is what randomBytes returned.
PostSignal(sdp, token) ==
    /\ sigCount < MaxSignals
    /\ IF Falsy(sdp)
       THEN /\ sigLast' = SignalResponse("post", Undefined, 400, [error |-> "missing sdp"])
            /\ UNCHANGED <<SIGNAL_STORE, sigTimers, sigCount>>
       ELSE LET timeout == sigCount + 1 IN
            /\ sigCount' = timeout
            /\ sigTimers' = MapSet(sigTimers, timeout,
                                   [token |-> token, due |-> sigNow + SIGNAL_TTL])
            /\ SIGNAL_STORE' = MapSet(MapDelete(SIGNAL_STORE, token), token,
                                      [sdp |-> sdp, timeout |-> timeout])
            /\ sigLast' = SignalResponse("post", token, 200, [token |-> token])
    /\ UNCHANGED <<sigNow, sigServed>>
    /\ UNCHANGED <<storeVars, relayVars, peerVars, transferVars>>

\* app.get('/signal/:token')
GetSignal(token) ==
    /\ IF token \notin DOMAIN SIGNAL_STORE
       THEN /\ sigLast' = SignalResponse("get", token, 404, [error |-> "not found or expired"])
            /\ UNCHANGED <<SIGNAL_STORE, sigTimers, sigServed>>
       ELSE LET entry == SIGNAL_STORE[token] IN
            /\ sigTimers' = MapDelete(sigTimers, entry.timeout)
            /\ SIGNAL_STORE' = MapDelete(SIGNAL_STORE, token)
            /\ sigLast' = SignalResponse("get", token, 200, [sdp |-> entry.sdp])
            /\ sigServed' = MapSet(sigServed, entry.timeout,
                                   MapGet(sigServed, entry.timeout) + 1)
    /\ UNCHANGED <<sigNow, sigCount>>
    /\ UNCHANGED <<storeVars, relayVars, peerVars, transferVars>>

\* setTimeout(() => { SIGNAL_STORE.delete(token) }, 2 * 60 * 1000): the callback
\* of timer t deletes whatever entry its token names by then.
SignalExpire(t) ==
    /\ t \in DOMAIN sigTimers
    /\ sigNow >= sigTimers[t].due
    /\ SIGNAL_STORE' = MapDelete(SIGNAL_STORE, sigTimers[t].token)
    /\ sigTimers' = MapDelete(sigTimers, t)
    /\ sigLast' = [op |-> "expire", token |-> sigTimers[t].token, status |-> 0,
                   body |-> <<>>, timer |-> t]
    /\ UNCHANGED <<sigNow, sigCount, sigServed>>
    /\ UNCHANGED <<storeVars, relayVars, peerVars, transferVars>>

\* Time passes on the /signal server.
SignalTick ==
    /\ sigNow < MaxTicks * TickMs
    /\ sigNow' = sigNow + TickMs
    /\ UNCHANGED <<SIGNAL_STORE, sigTimers, sigCount, sigLast, sigServed>>
    /\ UNCHANGED <<storeVars, relayVars, peerVars, transferVars>>

SignalInit ==
    /\ SIGNAL_STORE = EmptyMap
    /\ sigTimers = EmptyMap
    /\ sigNow = 0
    /\ sigCount = 0
    /\ sigLast = SignalResponse("none", Undefined, 0, <<>>)
    /\ sigServed = [t \in 1 .. MaxSignals |-> 0]

SignalNext ==
    \/ \E sdp \in SignalBodies, token \in SignalTokens : PostSignal(sdp, token)
    \/ \E token \in SignalTokens : GetSignal(token)
    \/ \E t \in 1 .. MaxSignals : SignalExpire(t)
    \/ SignalTick

(***************************************************************************)
(* The chunked transfer: the sending tab.                                  *)
(***************************************************************************)
chunkSize == 16384

\* JavaScript's null.
Null == [null |-> TRUE]

\* The files the user can pick (File objects: name and size).
Files ==
    {[name |-> "empty.bin", size |-> 0],
     [name |-> "note.txt", size |-> 1],
     [name |-> "block.bin", size |-> 16384],
     [name |-> "photo.jpg", size |-> 40000]}

\* What a change event of the file input can leave in selectedFiles.
Selections ==
    {<<>>} \cup {<<f>> : f \in Files}
    \cup {<<[name |-> "note.txt", size |-> 1], [name |-> "photo.jpg", size |-> 40000]>>}

Min(a, b) == IF a < b THEN a ELSE b

\* Blob.slice(start, end): the bytes [lo, hi) of the file, both ends clamped
\* to its size.
Slice(file, start, end) ==
    [kind |-> "binary", file |-> file.name,
     lo |-> Min(start, file.size), hi |-> Min(end, file.size)]

\* ArrayBuffer.byteLength
ByteLength(buf) == buf.hi - buf.lo

\* JSON.stringify({type: 'metadata', name, size, fileType})
Metadata(file) ==
    [kind |-> "string", json |-> "object", type |-> "metadata",
     name |-> file.name, size |-> file.size]

\* readSlice(o), on the reader fileReader names: readAsArrayBuffer throws an
\* InvalidStateError while that reader is still loading.
ReadSliceThrows(rds, reader) == reader \in DOMAIN rds

\* A slice whose end is taken as inclusive.
ReadSlice_EndInclusive(rds, reader, file, o) ==
    MapSet(rds, reader, Slice(file, o, o + chunkSize - 1))

ReadSlice(rds, reader, file, o) == MapSet(rds, reader, Slice(file, o, o + chunkSize))

\* fileInput 'change'
SelectFiles(fs) ==
    /\ ~fileInputDisabled
    /\ selectedFiles' = fs
    /\ txStatus' = IF Len(fs) > 0 THEN "Files selected (ready to send)" ELSE txStatus
    /\ UNCHANGED <<dcState, fileInputDisabled, shareDisabled, currentFile, offset,
                   fileReader, reads, nshares, sent, txErrors>>
    /\ UNCHANGED <<storeVars, signalVars, peerVars, relayVars, receiverVars>>

\* dataChannel.onopen
ChannelOpen ==
    /\ dcState = "connecting"
    /\ dcState' = "open"
    /\ txStatus' = "Data channel open"
    /\ fileInputDisabled' = FALSE
    /\ shareDisabled' = FALSE
    /\ UNCHANGED <<selectedFiles, currentFile, offset, fileReader, reads, nshares, sent,
                   txErrors>>
    /\ UNCHANGED <<storeVars, signalVars, peerVars, relayVars, receiverVars>>

\* The channel starts to close: readyState is 'closing', no event yet.
ChannelClosing ==
    /\ dcState = "open"
    /\ dcState' = "closing"
    /\ UNCHANGED <<selectedFiles, fileInputDisabled, shareDisabled, currentFile, offset,
                   fileReader, reads, nshares, sent, txStatus, txErrors>>
    /\ UNCHANGED <<storeVars, signalVars, peerVars, relayVars, receiverVars>>

\* dataChannel.onclose
ChannelClose ==
    /\ dcState \in {"connecting", "open", "closing"}
    /\ dcState' = "closed"
    /\ txStatus' = "Data channel closed"
    /\ shareDisabled' = TRUE
    /\ fileInputDisabled' = TRUE
    /\ UNCHANGED <<selectedFiles, currentFile, offset, fileReader, reads, nshares, sent,
                   txErrors>>
    /\ UNCHANGED <<storeVars, signalVars, peerVars, relayVars, receiverVars>>

\* connectBtn 'click' with a valid answer, as the sending tab (the initiator)
\* sees it.  setRemoteDescription succeeds once, while the channel is still
\* connecting and no answer was applied (fileInput is then still disabled);
\* afterwards it rejects.
ApplyAnswer ==
    /\ dcState # "none"
    /\ IF dcState = "connecting" /\ fileInputDisabled
       THEN /\ txStatus' = "Connection established! You can choose files and send."
            /\ fileInputDisabled' = FALSE
            /\ shareDisabled' = IF dcState = "open" THEN FALSE ELSE shareDisabled
       ELSE /\ txStatus' = "Error connecting"
            /\ UNCHANGED <<fileInputDisabled, shareDisabled>>
    /\ UNCHANGED <<selectedFiles, dcState, currentFile, offset, fileReader, reads, nshares,
                   sent, txErrors>>
    /\ UNCHANGED <<storeVars, signalVars, peerVars, relayVars, receiverVars>>

\* A click handler that only checks that a data channel exists.
ShareClick_NoChannelCheck ==
    /\ ~shareDisabled
    /\ nshares < MaxShares
    /\ IF dcState = "none"
       THEN /\ txStatus' = "Establish connection first"
            /\ UNCHANGED <<currentFile, offset, fileReader, reads, nshares, sent>>
       ELSE IF Len(selectedFiles) = 0
       THEN /\ txStatus' = "Select a file"
            /\ UNCHANGED <<currentFile, offset, fileReader, reads, nshares, sent>>
       ELSE /\ currentFile' = selectedFiles[1]
            /\ offset' = 0
            /\ sent' = Append(sent, Metadata(selectedFiles[1]))
            /\ fileReader' = fileReader + 1
            /\ reads' = ReadSlice(reads, fileReader + 1, selectedFiles[1], 0)
            /\ nshares' = nshares + 1
            /\ UNCHANGED txStatus
    /\ UNCHANGED <<selectedFiles, dcState, fileInputDisabled, shareDisabled, txErrors>>
    /\ UNCHANGED <<storeVars, signalVars, peerVars, relayVars, receiverVars>>

\* shareBtn 'click' and, when it passes the two checks, sendFiles()
ShareClick ==
    /\ ~shareDisabled
    /\ nshares < MaxShares
    /\ IF dcState \notin {"open"}
       THEN /\ txStatus' = "Establish connection first"
            /\ UNCHANGED <<currentFile, offset, fileReader, reads, nshares, sent>>
       ELSE IF Len(selectedFiles) = 0
       THEN /\ txStatus' = "Select a file"
            /\ UNCHANGED <<currentFile, offset, fileReader, reads, nshares, sent>>
       ELSE /\ currentFile' = selectedFiles[1]
            /\ offset' = 0
            /\ sent' = Append(sent, Metadata(selectedFiles[1]))
            /\ fileReader' = fileReader + 1
            /\ reads' = ReadSlice(reads, fileReader + 1, selectedFiles[1], 0)
            /\ nshares' = nshares + 1
            /\ UNCHANGED txStatus
    /\ UNCHANGED <<selectedFiles, dcState, fileInputDisabled, shareDisabled, txErrors>>
    /\ UNCHANGED <<storeVars, signalVars, peerVars, relayVars, receiverVars>>

\* fileReader.onload of reader k: its read has completed
OnLoad(k) ==
    /\ k \in DOMAIN reads
    /\ LET result == reads[k]
           done == MapDelete(reads, k)
           newOffset == offset + ByteLength(result)
       IN IF dcState # "open"
          THEN \* dataChannel.send throws an InvalidStateError
               /\ reads' = done
               /\ txErrors' = txErrors + 1
               /\ UNCHANGED <<offset, sent, txStatus>>
          ELSE /\ sent' = Append(sent, result)
               /\ offset' = newOffset
               /\ IF newOffset < currentFile.size
                  THEN IF ReadSliceThrows(done, fileReader)
                       THEN /\ reads' = done
                            /\ txErrors' = txErrors + 1
                            /\ UNCHANGED txStatus
                       ELSE /\ reads' = ReadSlice(done, fileReader, currentFile, newOffset)
                            /\ UNCHANGED <<txErrors, txStatus>>
                  ELSE /\ reads' = done
                       /\ txStatus' = "File sent!"
                       /\ UNCHANGED txErrors
    /\ UNCHANGED <<selectedFiles, dcState, fileInputDisabled, shareDisabled, currentFile,
                   fileReader, nshares>>
    /\ UNCHANGED <<storeVars, signalVars, peerVars, relayVars, receiverVars>>

(***************************************************************************)
(* The chunked transfer: the receiving tab.                                *)
(***************************************************************************)
\* new Blob(receivedChunks).size
RECURSIVE BlobSize(_)
BlobSize(chunks) ==
    IF chunks = <<>> THEN 0 ELSE ByteLength(Head(chunks)) + BlobSize(Tail(chunks))

\* A receiver that completes as soon as the running total is at least the
\* declared size.
ReceiveFile_AtLeast(ev) ==
    IF ev.kind = "string"
    THEN IF ev.json = "invalid"
         THEN /\ rxErrors' = rxErrors + 1
              /\ UNCHANGED <<fileMetadata, receivedSize, receivedChunks, downloads, rxStatus>>
         ELSE IF ev.json = "null"
         THEN /\ fileMetadata' = Null
              /\ receivedSize' = 0
              /\ receivedChunks' = <<>>
              /\ rxErrors' = rxErrors + 1
              /\ UNCHANGED <<downloads, rxStatus>>
         ELSE /\ fileMetadata' = [name |-> ev.name, size |-> ev.size]
              /\ receivedSize' = 0
              /\ receivedChunks' = <<>>
              /\ rxStatus' = "Receiving"
              /\ UNCHANGED <<downloads, rxErrors>>
    ELSE /\ receivedChunks' = Append(receivedChunks, ev)
         /\ receivedSize' = receivedSize + ByteLength(ev)
         /\ IF fileMetadata = Null
            THEN \* fileMetadata.size throws a TypeError
                 /\ rxErrors' = rxErrors + 1
                 /\ UNCHANGED <<downloads, rxStatus>>
            ELSE IF receivedSize' >= fileMetadata.size
            THEN /\ downloads' = Append(downloads,
                      [name |-> fileMetadata.name,
                       size |-> BlobSize(receivedChunks'),
                       parts |-> receivedChunks',
                       after |-> Len(delivered')])
                 /\ rxStatus' = "File received!"
                 /\ UNCHANGED rxErrors
            ELSE UNCHANGED <<downloads, rxStatus, rxErrors>>
         /\ UNCHANGED fileMetadata

\* A receiver that never completes on an empty running total.
ReceiveFile_NeedsBytes(ev) ==
    IF ev.kind = "string"
    THEN IF ev.json = "invalid"
         THEN /\ rxErrors' = rxErrors + 1
              /\ UNCHANGED <<fileMetadata, receivedSize, receivedChunks, downloads, rxStatus>>
         ELSE IF ev.json = "null"
         THEN /\ fileMetadata' = Null
              /\ receivedSize' = 0
              /\ receivedChunks' = <<>>
              /\ rxErrors' = rxErrors + 1
              /\ UNCHANGED <<downloads, rxStatus>>
         ELSE /\ fileMetadata' = [name |-> ev.name, size |-> ev.size]
              /\ receivedSize' = 0
              /\ receivedChunks' = <<>>
              /\ rxStatus' = "Receiving"
              /\ UNCHANGED <<downloads, rxErrors>>
    ELSE /\ receivedChunks' = Append(receivedChunks, ev)
         /\ receivedSize' = receivedSize + ByteLength(ev)
         /\ IF fileMetadata = Null
            THEN \* fileMetadata.size throws a TypeError
                 /\ rxErrors' = rxErrors + 1
                 /\ UNCHANGED <<downloads, rxStatus>>
            ELSE IF receivedSize' = fileMetadata.size /\ receivedSize' > 0
            THEN /\ downloads' = Append(downloads,
                      [name |-> fileMetadata.name,
                       size |-> BlobSize(receivedChunks'),
                       parts |-> receivedChunks',
                       after |-> Len(delivered')])
                 /\ rxStatus' = "File received!"
                 /\ UNCHANGED rxErrors
            ELSE UNCHANGED <<downloads, rxStatus, rxErrors>>
         /\ UNCHANGED fileMetadata

\* receiveFile(ev): the receiver's variables after the message ev.  A string
\* goes through JSON.parse, which throws a SyntaxError on text that is not
\* JSON and returns null for the text "null"; fileMetadata.name then throws
\* a TypeError, after the counters have been reset.
ReceiveFile(ev) ==
    IF ev.kind = "string"
    THEN IF ev.json = "invalid"
         THEN /\ rxErrors' = rxErrors + 1
              /\ UNCHANGED <<fileMetadata, receivedSize, receivedChunks, downloads, rxStatus>>
         ELSE IF ev.json = "null"
         THEN /\ fileMetadata' = Null
              /\ receivedSize' = 0
              /\ receivedChunks' = <<>>
              /\ rxErrors' = rxErrors + 1
              /\ UNCHANGED <<downloads, rxStatus>>
         ELSE /\ fileMetadata' = [name |-> ev.name, size |-> ev.size]
              /\ receivedSize' = 0
              /\ receivedChunks' = <<>>
              /\ rxStatus' = "Receiving"
              /\ UNCHANGED <<downloads, rxErrors>>
    ELSE /\ receivedChunks' = Append(receivedChunks, ev)
         /\ receivedSize' = receivedSize + ByteLength(ev)
         /\ IF fileMetadata = Null
            THEN \* fileMetadata.size throws a TypeError
                 /\ rxErrors' = rxErrors + 1
                 /\ UNCHANGED <<downloads, rxStatus>>
            ELSE IF receivedSize' = fileMetadata.size
            THEN /\ downloads' = Append(downloads,
                      [name |-> fileMetadata.name,
                       size |-> BlobSize(receivedChunks'),
                       parts |-> receivedChunks',
                       after |-> Len(delivered')])
                 /\ rxStatus' = "File received!"
                 /\ UNCHANGED rxErrors
            ELSE UNCHANGED <<downloads, rxStatus, rxErrors>>
         /\ UNCHANGED fileMetadata

\* dataChannel.onmessage on the receiving tab: the channel is ordered and
\* reliable, so the next message delivered is the next one sent.
Deliver ==
    /\ Len(delivered) < Len(sent)
    /\ delivered' = Append(delivered, sent[Len(delivered) + 1])
    /\ ReceiveFile(sent[Len(delivered) + 1])
    /\ UNCHANGED <<storeVars, signalVars, peerVars, relayVars, senderVars>>

\* The messages any peer can put on the channel: metadata of any declared
\* size and binary frames of any length.
PeerMessages ==
    {[kind |-> "string", json |-> "object", type |-> "metadata", name |-> "f", size |-> n] :
        n \in 0 .. MaxRxBytes}
    \cup {[kind |-> "string", json |-> j, type |-> Undefined, name |-> Undefined,
            size |-> Undefined] : j \in {"invalid", "null"}}
    \cup {[kind |-> "binary", file |-> "f", lo |-> 0, hi |-> n] : n \in 0 .. MaxRxBytes}

\* dataChannel.onmessage on the receiving tab, the peer being any sender.
Receive(ev) ==
    /\ Len(delivered) < MaxDelivered
    /\ delivered' = Append(delivered, ev)
    /\ ReceiveFile(ev)
    /\ UNCHANGED <<storeVars, signalVars, peerVars, relayVars, senderVars>>

\* The sending tab at page load.
SenderInit ==
    /\ selectedFiles = <<>>
    /\ dcState = "none"
    /\ fileInputDisabled = TRUE
    /\ shareDisabled = TRUE
    /\ currentFile = Null
    /\ offset = 0
    /\ fileReader = 0
    /\ reads = EmptyMap
    /\ nshares = 0
    /\ sent = <<>>
    /\ txStatus = ""
    /\ txErrors = 0

\* The sending tab once createDataChannel() and setupDataChannel() have run.
SenderReady ==
    /\ selectedFiles = <<>>
    /\ dcState = "connecting"
    /\ fileInputDisabled = TRUE
    /\ shareDisabled = TRUE
    /\ currentFile = Null
    /\ offset = 0
    /\ fileReader = 0
    /\ reads = EmptyMap
    /\ nshares = 0
    /\ sent = <<>>
    /\ txStatus = ""
    /\ txErrors = 0

\* The receiving tab at page load.
ReceiverInit ==
    /\ fileMetadata = Null
    /\ receivedSize = 0
    /\ receivedChunks = <<>>
    /\ downloads = <<>>
    /\ rxStatus = ""
    /\ rxErrors = 0
    /\ delivered = <<>>

(***************************************************************************)
(* The handshake of the browser client, two tabs on one relay.             *)
(***************************************************************************)
\* The tabs, named by their connections to the relay.
Tabs == {"ws1", "ws2"}

Other(t) == CHOOSE u \in Tabs : u # t

\* What a user can paste, scan or pass in ?token=: a token text or a short
\* link /t/<id>.  An empty text is given to the connect action only.
TokenTexts == {"OFFER_SDP_X", "ANSWER_SDP_Y", "BAD_OFFER", "null", "garbage"}

TokenInputs == [kind : {"text"}, value : TokenTexts] \cup [kind : {"link"}, value : Ids]

AnswerInputs == TokenInputs \cup {[kind |-> "text", value |-> ""]}

\* GET /t/:id as fetch sees it: the reveal page (HTML), or 404.
RevealPage(id) ==
    IF Falsy(MapGet(tokens, id))
    THEN [ok |-> FALSE, text |-> "<html>expired"]
    ELSE [ok |-> TRUE, text |-> "<!doctype html>reveal"]

\* The text the flow goes on with: for a link whose fetch is ok the body of
\* the response; the thrown 'Failed to fetch token' is swallowed by the
\* inner catch and leaves the link itself.
Resolve(input) ==
    IF input.kind = "link"
    THEN IF RevealPage(input.value).ok THEN RevealPage(input.value).text ELSE "/t/" \o input.value
    ELSE input.value

\* JSON.parse(text) of a token text.
ParseToken(text) ==
    CASE text = "OFFER_SDP_X" -> Returns([json |-> "object", type |-> "offer", sdp |-> "valid"])
      [] text = "ANSWER_SDP_Y" -> Returns([json |-> "object", type |-> "answer", sdp |-> "valid"])
      [] text = "BAD_OFFER" -> Returns([json |-> "object", type |-> "offer", sdp |-> "invalid"])
      [] text = "null" -> Returns([json |-> "null", type |-> Undefined, sdp |-> Undefined])
      [] OTHER -> Throws

\* new RTCPeerConnection(configuration)
NewConnection(n) ==
    [id |-> n, local |-> "none", remote |-> "none", gathering |-> "new", applied |-> {},
     found |-> 0]

\* The connections left behind when peerConnection is reassigned: nothing
\* closes the old object, its handlers stay attached, and the flow that
\* waits for its gathering goes on.
Replaced(t) ==
    IF peerConnection[t] = Null THEN orphans
    ELSE [orphans EXCEPT ![t] = @ \cup {[pc |-> peerConnection[t], flow |-> waiting[t]]}]

\* pc.localDescription as the relay passes it on: null before
\* setLocalDescription, else the offer or answer of that connection.
DescriptionOf(pc) ==
    IF pc = Null \/ pc.local = "none" THEN "null" ELSE pc.local \o "-" \o ToString(pc.id)

Descriptions(kind) == {kind \o "-" \o ToString(n) : n \in 1 .. MaxConnections}

\* JSON.stringify(data.offer), JSON.stringify(data.answer): the token text
\* of the description the relay echoed.
Serialize(desc) ==
    CASE desc \in Descriptions("offer") -> "OFFER_SDP_X"
      [] desc \in Descriptions("answer") -> "ANSWER_SDP_Y"
      [] OTHER -> "null"

\* What storeTokenAndGetShortUrl gets from POST /store: an id, or a failure
\* (network error, or a status that is not ok).
StoreReplies == [ok : {TRUE}, id : Ids] \cup {[ok |-> FALSE, id |-> Undefined]}


ShowStatus(text, kind) == [text |-> text, kind |-> kind]

\* { type: 'offer', offer: peerConnection.localDescription }, and the same
\* for an answer: the description is read from the connection the tab holds
\* when the wait ends.
DescriptionMessage(kind, pc) ==
    [json |-> "object", type |-> kind, value |-> DescriptionOf(pc)]

\* A candidate found while the flow still waits for gathering is cand-1, one
\* found after the wait has ended is cand-2.
CandidateMessage(flow) ==
    [json |-> "object", type |-> "ice-candidate",
     value |-> IF flow = "none" THEN "cand-2" ELSE "cand-1"]

\* The RTCPeerConnection objects created so far, in both tabs.
Created == npc["ws1"] + npc["ws2"]

\* createConnectionBtn 'click', up to the wait for ICE gathering
CreateConnection(t) ==
    /\ Created < MaxConnections
    /\ IF readyState[t] # "OPEN"
       THEN /\ statusMessage' = [statusMessage EXCEPT ![t] = ShowStatus("Signaling not connected", "error")]
            /\ UNCHANGED <<isInitiator, peerConnection, dataChannel, waiting, orphans, npc>>
       ELSE /\ orphans' = Replaced(t)
            /\ isInitiator' = [isInitiator EXCEPT ![t] = TRUE]
            /\ npc' = [npc EXCEPT ![t] = @ + 1]
            /\ peerConnection' = [peerConnection EXCEPT ![t] =
                  [NewConnection(npc[t] + 1) EXCEPT !.local = "offer", !.gathering = "gathering"]]
            /\ dataChannel' = [dataChannel EXCEPT ![t] = [pc |-> npc[t] + 1]]
            /\ waiting' = [waiting EXCEPT ![t] = "offer"]
            /\ UNCHANGED statusMessage
    /\ UNCHANGED <<tokenInput, inputEnabled, wsRead>>
    /\ UNCHANGED <<storeVars, signalVars, relayVars, transferVars>>

\* The rest of the flow after waitForIceGatheringComplete: ws.send of the
\* local description, which the relay handles.
SendDescription(t) ==
    /\ Relayed(t, DescriptionMessage(waiting[t], peerConnection[t]))
    /\ statusMessage' = [statusMessage EXCEPT ![t] =
          IF waiting[t] = "offer"
          THEN ShowStatus("Offer created", "info")
          ELSE ShowStatus("Answer created. Share with initiator.", "info")]
    /\ waiting' = [waiting EXCEPT ![t] = "none"]

\* icegatheringstatechange to 'complete': the wait resolves
GatheringComplete(t) ==
    /\ peerConnection[t] # Null
    /\ peerConnection[t].gathering = "gathering"
    /\ peerConnection' = [peerConnection EXCEPT ![t].gathering = "complete"]
    /\ IF waiting[t] # "none"
       THEN SendDescription(t)
       ELSE UNCHANGED <<waiting, statusMessage, relayVars>>
    /\ UNCHANGED <<isInitiator, dataChannel, tokenInput, orphans, inputEnabled, wsRead, npc>>
    /\ UNCHANGED <<storeVars, signalVars, transferVars>>

\* The setTimeout of waitForIceGatheringComplete: the wait resolves while
\* gathering goes on.
GatherTimeout(t) ==
    /\ waiting[t] # "none"
    /\ SendDescription(t)
    /\ UNCHANGED <<isInitiator, peerConnection, dataChannel, tokenInput, orphans,
                   inputEnabled, wsRead, npc>>
    /\ UNCHANGED <<storeVars, signalVars, transferVars>>

\* A handler that sends candidates only while the flow waits for gathering.
IceCandidate_OnlyWhileWaiting(t) ==
    /\ peerConnection[t] # Null
    /\ peerConnection[t].gathering = "gathering"
    /\ nmsg < MaxMessages
    /\ peerConnection' = [peerConnection EXCEPT ![t].found = @ + 1]
    /\ IF waiting[t] # "none"
       THEN Relayed(t, CandidateMessage(waiting[t]))
       ELSE UNCHANGED relayVars
    /\ UNCHANGED <<isInitiator, dataChannel, waiting, tokenInput, orphans, inputEnabled,
                   statusMessage, wsRead, npc>>
    /\ UNCHANGED <<storeVars, signalVars, transferVars>>

\* peerConnection.onicecandidate with a candidate: ws.send, which the relay
\* handles.
IceCandidate(t) ==
    /\ peerConnection[t] # Null
    /\ peerConnection[t].gathering = "gathering"
    /\ peerConnection' = [peerConnection EXCEPT ![t].found = @ + 1]
    /\ Relayed(t, CandidateMessage(waiting[t]))
    /\ UNCHANGED <<isInitiator, dataChannel, waiting, tokenInput, orphans, inputEnabled,
                   statusMessage, wsRead, npc>>
    /\ UNCHANGED <<storeVars, signalVars, transferVars>>

\* onicecandidate of a connection the tab has replaced: the handler is a
\* property of the old object and still calls ws.send.
OrphanCandidate(t, o) ==
    /\ o \in orphans[t]
    /\ o.pc.gathering = "gathering"
    /\ orphans' = [orphans EXCEPT ![t] = (@ \ {o}) \cup {[o EXCEPT !.pc.found = @ + 1]}]
    /\ Relayed(t, CandidateMessage(o.flow))
    /\ UNCHANGED <<isInitiator, peerConnection, dataChannel, waiting, tokenInput,
                   inputEnabled, statusMessage, wsRead, npc>>
    /\ UNCHANGED <<storeVars, signalVars, transferVars>>

\* The rest of a flow whose connection has been replaced: it reads
\* peerConnection.localDescription, the description of the connection the
\* tab holds now.
OrphanSendDescription(t, o) ==
    /\ Relayed(t, DescriptionMessage(o.flow, peerConnection[t]))
    /\ statusMessage' = [statusMessage EXCEPT ![t] =
          IF o.flow = "offer"
          THEN ShowStatus("Offer created", "info")
          ELSE ShowStatus("Answer created. Share with initiator.", "info")]

\* icegatheringstatechange to 'complete' on a replaced connection
OrphanComplete(t, o) ==
    /\ o \in orphans[t]
    /\ o.pc.gathering = "gathering"
    /\ orphans' = [orphans EXCEPT ![t] =
          (@ \ {o}) \cup {[o EXCEPT !.pc.gathering = "complete", !.flow = "none"]}]
    /\ IF o.flow # "none"
       THEN OrphanSendDescription(t, o)
       ELSE UNCHANGED <<statusMessage, relayVars>>
    /\ UNCHANGED <<isInitiator, peerConnection, dataChannel, waiting, tokenInput,
                   inputEnabled, wsRead, npc>>
    /\ UNCHANGED <<storeVars, signalVars, transferVars>>

\* The setTimeout of a flow whose connection has been replaced
OrphanTimeout(t, o) ==
    /\ o \in orphans[t]
    /\ o.flow # "none"
    /\ orphans' = [orphans EXCEPT ![t] = (@ \ {o}) \cup {[o EXCEPT !.flow = "none"]}]
    /\ OrphanSendDescription(t, o)
    /\ UNCHANGED <<isInitiator, peerConnection, dataChannel, waiting, tokenInput,
                   inputEnabled, wsRead, npc>>
    /\ UNCHANGED <<storeVars, signalVars, transferVars>>

\* The next message of the relay that the tab has not handled yet.
NextMessage(t) == outbox[t][wsRead[t] + 1]

\* A handler whose catch shows the error and leaves the token field alone.
WsMessage_NoFallback(t, stored) ==
    /\ wsRead[t] < Len(outbox[t])
    /\ wsRead' = [wsRead EXCEPT ![t] = @ + 1]
    /\ LET data == NextMessage(t) IN
       CASE data.type \in {"offer-created", "answer-created"} ->
               /\ tokenInput' = [tokenInput EXCEPT ![t] =
                     IF stored.ok THEN [kind |-> "link", value |-> stored.id] ELSE @]
               /\ statusMessage' = [statusMessage EXCEPT ![t] =
                     IF stored.ok THEN ShowStatus("short URL created", "info")
                     ELSE ShowStatus("Failed to shorten token", "error")]
               /\ UNCHANGED peerConnection
         [] data.type = "ice-candidate" /\ peerConnection[t] # Null ->
               /\ peerConnection' =
                     IF peerConnection[t].remote = "none" THEN peerConnection
                     ELSE [peerConnection EXCEPT ![t].applied = @ \cup {data.value}]
               /\ UNCHANGED <<tokenInput, statusMessage>>
         [] OTHER -> UNCHANGED <<peerConnection, tokenInput, statusMessage>>
    /\ UNCHANGED <<isInitiator, dataChannel, waiting, orphans, inputEnabled, npc>>
    /\ UNCHANGED <<storeVars, signalVars, relayVars, transferVars>>

\* A handler that reports a candidate it cannot apply.
WsMessage_ReportsDrop(t, stored) ==
    /\ wsRead[t] < Len(outbox[t])
    /\ wsRead' = [wsRead EXCEPT ![t] = @ + 1]
    /\ LET data == NextMessage(t) IN
       CASE data.type \in {"offer-created", "answer-created"} ->
               /\ tokenInput' = [tokenInput EXCEPT ![t] =
                     IF stored.ok THEN [kind |-> "link", value |-> stored.id]
                     ELSE [kind |-> "text", value |-> Serialize(data.value)]]
               /\ statusMessage' = [statusMessage EXCEPT ![t] =
                     IF stored.ok THEN ShowStatus("short URL created", "info")
                     ELSE ShowStatus("Failed to shorten token", "error")]
               /\ UNCHANGED peerConnection
         [] data.type = "ice-candidate" /\ peerConnection[t] # Null ->
               /\ peerConnection' =
                     IF peerConnection[t].remote = "none" THEN peerConnection
                     ELSE [peerConnection EXCEPT ![t].applied = @ \cup {data.value}]
               /\ UNCHANGED <<tokenInput, statusMessage>>
         [] data.type = "ice-candidate" /\ peerConnection[t] = Null ->
               /\ statusMessage' = [statusMessage EXCEPT ![t] =
                     ShowStatus("Error processing token", "error")]
               /\ UNCHANGED <<peerConnection, tokenInput>>
         [] OTHER -> UNCHANGED <<peerConnection, tokenInput, statusMessage>>
    /\ UNCHANGED <<isInitiator, dataChannel, waiting, orphans, inputEnabled, npc>>
    /\ UNCHANGED <<storeVars, signalVars, relayVars, transferVars>>

\* ws.onmessage.  storeTokenAndGetShortUrl either returns the short link or
\* throws, and the full token is shown instead.
WsMessage(t, stored) ==
    /\ wsRead[t] < Len(outbox[t])
    /\ wsRead' = [wsRead EXCEPT ![t] = @ + 1]
    /\ LET data == NextMessage(t) IN
       CASE data.type \in {"offer-created", "answer-created"} ->
               /\ tokenInput' = [tokenInput EXCEPT ![t] =
                     IF stored.ok THEN [kind |-> "link", value |-> stored.id]
                     ELSE [kind |-> "text", value |-> Serialize(data.value)]]
               /\ statusMessage' = [statusMessage EXCEPT ![t] =
                     IF stored.ok THEN ShowStatus("short URL created", "info")
                     ELSE ShowStatus("Failed to shorten token", "error")]
               /\ UNCHANGED peerConnection
         [] data.type = "ice-candidate" /\ peerConnection[t] # Null ->
               \* addIceCandidate rejects without a remote description; the
               \* rejection is caught and logged
               /\ peerConnection' =
                     IF peerConnection[t].remote = "none" THEN peerConnection
                     ELSE [peerConnection EXCEPT ![t].applied = @ \cup {data.value}]
               /\ UNCHANGED <<tokenInput, statusMessage>>
         [] OTHER -> UNCHANGED <<peerConnection, tokenInput, statusMessage>>
    /\ UNCHANGED <<isInitiator, dataChannel, waiting, orphans, inputEnabled, npc>>
    /\ UNCHANGED <<storeVars, signalVars, relayVars, transferVars>>

\* handleScannedOrPastedToken(tokenOrUrl), up to the wait for ICE gathering
Respond(t, input) ==
    /\ Created < MaxConnections
    /\ LET parsed == ParseToken(Resolve(input)) IN
       IF parsed.threw \/ parsed.value.json = "null"
       THEN \* SyntaxError of JSON.parse, or TypeError of obj.type
            /\ statusMessage' = [statusMessage EXCEPT ![t] = ShowStatus("Error processing token", "error")]
            /\ UNCHANGED <<isInitiator, peerConnection, waiting, orphans, npc>>
       ELSE IF parsed.value.type # "offer"
       THEN /\ statusMessage' = [statusMessage EXCEPT ![t] = ShowStatus("Invalid offer token", "error")]
            /\ UNCHANGED <<isInitiator, peerConnection, waiting, orphans, npc>>
       ELSE /\ isInitiator' = [isInitiator EXCEPT ![t] = FALSE]
            /\ orphans' = Replaced(t)
            /\ npc' = [npc EXCEPT ![t] = @ + 1]
            /\ IF parsed.value.sdp # "valid"
               THEN \* setRemoteDescription rejects
                    /\ peerConnection' = [peerConnection EXCEPT ![t] = NewConnection(npc[t] + 1)]
                    /\ statusMessage' = [statusMessage EXCEPT ![t] =
                          ShowStatus("Error processing token", "error")]
                    /\ waiting' = [waiting EXCEPT ![t] = "none"]
               ELSE /\ peerConnection' = [peerConnection EXCEPT ![t] =
                          [NewConnection(npc[t] + 1) EXCEPT
                              !.remote = "offer", !.local = "answer", !.gathering = "gathering"]]
                    /\ waiting' = [waiting EXCEPT ![t] = "answer"]
                    /\ UNCHANGED statusMessage
    /\ UNCHANGED <<dataChannel, tokenInput, inputEnabled, wsRead>>
    /\ UNCHANGED <<storeVars, signalVars, relayVars, transferVars>>

\* setRemoteDescription(answer) on the tab's connection: a TypeError when
\* peerConnection is null, a rejection when the sdp is bad or no local offer
\* awaits an answer.
AnswerRefused(t, answerData) ==
    \/ peerConnection[t] = Null
    \/ answerData.sdp # "valid"
    \/ peerConnection[t].local # "offer"
    \/ peerConnection[t].remote # "none"

\* connectBtn 'click', answerInput holding the input.  shareBtn stays as it
\* is: the data channel cannot be open before the answer is applied.
ConnectClick(t, input) ==
    /\ IF input.value = ""
       THEN /\ statusMessage' = [statusMessage EXCEPT ![t] = ShowStatus("Please paste answer token", "error")]
            /\ UNCHANGED <<peerConnection, inputEnabled>>
       ELSE LET parsed == ParseToken(Resolve(input)) IN
            IF parsed.threw \/ parsed.value.json = "null"
            THEN /\ statusMessage' = [statusMessage EXCEPT ![t] = ShowStatus("Error connecting", "error")]
                 /\ UNCHANGED <<peerConnection, inputEnabled>>
            ELSE IF parsed.value.type # "answer"
            THEN /\ statusMessage' = [statusMessage EXCEPT ![t] = ShowStatus("Invalid answer token", "error")]
                 /\ UNCHANGED <<peerConnection, inputEnabled>>
            ELSE IF AnswerRefused(t, parsed.value)
            THEN /\ statusMessage' = [statusMessage EXCEPT ![t] = ShowStatus("Error connecting", "error")]
                 /\ UNCHANGED <<peerConnection, inputEnabled>>
            ELSE /\ peerConnection' = [peerConnection EXCEPT ![t].remote = "answer"]
                 /\ statusMessage' = [statusMessage EXCEPT ![t] = ShowStatus("Connection established!", "success")]
                 /\ inputEnabled' = [inputEnabled EXCEPT ![t] = TRUE]
    /\ UNCHANGED <<isInitiator, dataChannel, waiting, tokenInput, orphans, wsRead, npc>>
    /\ UNCHANGED <<storeVars, signalVars, relayVars, transferVars>>

\* Every tab at page load.
PeerInit ==
    /\ isInitiator = [t \in Tabs |-> FALSE]
    /\ peerConnection = [t \in Tabs |-> Null]
    /\ dataChannel = [t \in Tabs |-> Null]
    /\ waiting = [t \in Tabs |-> "none"]
    /\ tokenInput = [t \in Tabs |-> [kind |-> "text", value |-> ""]]
    /\ orphans = [t \in Tabs |-> {}]
    /\ inputEnabled = [t \in Tabs |-> FALSE]
    /\ statusMessage = [t \in Tabs |-> ShowStatus("", "info")]
    /\ wsRead = [t \in Tabs |-> 0]
    /\ npc = [t \in Tabs |-> 0]

\* The token store after POST /store of an offer and, in half of the cases,
\* of an answer.
StoreSeeded ==
    /\ tokens \in {("id-a" :> "OFFER_SDP_X"),
                   ("id-a" :> "OFFER_SDP_X") @@ ("id-b" :> "ANSWER_SDP_Y")}
    /\ issued = tokens
    /\ timers = [id \in DOMAIN tokens |-> TOKEN_TTL]
    /\ now = 0
    /\ pending = {}
    /\ nreq = Cardinality(DOMAIN tokens)
    /\ last = IF "id-b" \in DOMAIN tokens
              THEN Response([rid |-> 2, op |-> "store", arg |-> "ANSWER_SDP_Y"], 200,
                            [id |-> "id-b"])
              ELSE Response([rid |-> 1, op |-> "store", arg |-> "OFFER_SDP_X"], 200,
                            [id |-> "id-a"])
    /\ winners = {}
    /\ peeked = {}

\* The relay with both tabs connected and welcomed.  The two revisions
\* treat the well-formed messages of the tabs alike.
RelayJoined ==
    /\ server = "index.js"
    /\ relayUp = TRUE
    /\ clients = Tabs
    /\ readyState = [c \in Conns |-> IF c \in Tabs THEN "OPEN" ELSE "NEW"]
    /\ outbox = [c \in Conns |-> IF c \in Tabs THEN <<Welcome>> ELSE <<>>]
    /\ gone = EmptyMap
    /\ nmsg = 0
    /\ relayLast = NoMessage

\* Both tabs in both roles, with every input; the relay takes MaxMessages
\* messages.
HandshakeNext ==
    \/ \E t \in Tabs : CreateConnection(t)
    \/ \E t \in Tabs : GatheringComplete(t)
    \/ \E t \in Tabs : GatherTimeout(t)
    \/ \E t \in Tabs : IceCandidate(t)
    \/ \E t \in Tabs : \E o \in orphans[t] : OrphanCandidate(t, o)
    \/ \E t \in Tabs : \E o \in orphans[t] : OrphanComplete(t, o)
    \/ \E t \in Tabs : \E o \in orphans[t] : OrphanTimeout(t, o)
    \/ \E t \in Tabs, stored \in StoreReplies : WsMessage(t, stored)
    \/ \E t \in Tabs, input \in TokenInputs : Respond(t, input)
    \/ \E t \in Tabs, input \in AnswerInputs : ConnectClick(t, input)

TransferNext ==
    \/ \E fs \in Selections : SelectFiles(fs)
    \/ ChannelOpen
    \/ ChannelClosing
    \/ ChannelClose
    \/ ApplyAnswer
    \/ ShareClick
    \/ \E k \in DOMAIN reads : OnLoad(k)
    \/ Deliver

ReceiverNext == \E ev \in PeerMessages : Receive(ev)

StoreNext == StoreStep /\ UNCHANGED <<signalVars, relayVars, peerVars, transferVars>>

Init == StoreInit /\ SignalInit /\ RelayInit /\ PeerInit /\ SenderInit /\ ReceiverInit

Next == StoreNext \/ SignalNext \/ RelayNext \/ HandshakeNext \/ TransferNext

Spec == Init /\ [][Next]_vars

\* The token store alone, the relay and the tabs left idle.
StoreSpecInit == StoreInit /\ SignalInit /\ RelayIdle /\ PeerInit /\ SenderInit /\ ReceiverInit

StoreSpec == StoreSpecInit /\ [][StoreNext]_vars

\* The relay alone, the token store left empty and the tabs idle.
RelaySpecInit == StoreInit /\ SignalInit /\ RelayInit /\ PeerInit /\ SenderInit /\ ReceiverInit

RelaySpec == RelaySpecInit /\ [][RelayNext]_vars

\* The /signal store alone.
SignalSpecInit == StoreInit /\ SignalInit /\ RelayIdle /\ PeerInit /\ SenderInit /\ ReceiverInit

SignalSpec == SignalSpecInit /\ [][SignalNext]_vars

\* Two tabs on the relay, the token store holding an offer.
HandshakeSpecInit ==
    StoreSeeded /\ SignalInit /\ RelayJoined /\ PeerInit /\ SenderInit /\ ReceiverInit

HandshakeSpec == HandshakeSpecInit /\ [][HandshakeNext]_vars

\* The first tab as initiator and the second as responder, with the
\* messages of the relay they handle; the token store holds an offer and an
\* answer.
MessagingNext ==
    \/ CreateConnection("ws1")
    \/ \E input \in TokenInputs : Respond("ws2", input)
    \/ \E t \in Tabs : GatheringComplete(t)
    \/ \E t \in Tabs : GatherTimeout(t)
    \/ \E t \in Tabs : IceCandidate(t)
    \/ \E t \in Tabs : \E o \in orphans[t] : OrphanCandidate(t, o)
    \/ \E t \in Tabs : \E o \in orphans[t] : OrphanComplete(t, o)
    \/ \E t \in Tabs : \E o \in orphans[t] : OrphanTimeout(t, o)
    \/ \E t \in Tabs, stored \in StoreReplies : WsMessage(t, stored)

MessagingSpecInit ==
    /\ StoreSeeded /\ SignalInit /\ RelayJoined /\ PeerInit /\ SenderInit /\ ReceiverInit
    /\ DOMAIN tokens = Ids

MessagingSpec == MessagingSpecInit /\ [][MessagingNext]_vars

\* A sending and a receiving tab joined by a data channel about to open.
TransferSpecInit == StoreInit /\ SignalInit /\ RelayIdle /\ PeerInit /\ SenderReady /\ ReceiverInit

TransferSpec == TransferSpecInit /\ [][TransferNext]_vars

\* A receiving tab whose peer may send anything.
ReceiverSpecInit == StoreInit /\ SignalInit /\ RelayIdle /\ PeerInit /\ SenderInit /\ ReceiverInit

ReceiverSpec == ReceiverSpecInit /\ [][ReceiverNext]_vars

(***************************************************************************)
(* Properties of the token store.                                          *)
(***************************************************************************)
\* This step is the handler run of the in-flight request r.
Handled(r) == r \in pending /\ pending' = pending \ {r}

Expired(r) == Response(r, 200, [error |-> "expired"])

HasWinner(id) == \E w \in winners : w.id = id

\* The expiry timer of id has run.
TimerRan(id) == id \in DOMAIN issued /\ id \notin DOMAIN timers

\* C1 (one-time use): once a GET /consume/:id has been answered with the
\* payload of an id, every later GET /consume/:id for that id is answered
\* {error: "expired"}, whatever store, peek and consume requests, timer
\* callbacks and clock ticks come in between.
C1_OneTimeUse ==
    [][\A r \in pending :
         (Handled(r) /\ r.op = "consume" /\ HasWinner(r.arg)) => last' = Expired(r)]_vars

\* A consume of an id came after another consume got its payload, and was
\* answered "expired".
C1_Witness ==
    /\ last.op = "consume"
    /\ last.body = [error |-> "expired"]
    /\ \E w \in winners : w.id = last.arg /\ w.rid # last.rid

\* C2 (atomic consumption): of the consume requests for one id that are in
\* flight together, at most one is answered with the payload: no request that
\* was in flight when another got the payload of the same id gets it too, and
\* an id never has two winners.
C2_AtomicConsume ==
    /\ \A w \in winners : \A v \in winners : v.rid \notin w.rivals
    /\ \A w \in winners : \A v \in winners : w.id = v.id => w.rid = v.rid
    /\ \A w \in winners : w.id \notin DOMAIN tokens

\* Two consumes of one id were in flight together; one got the payload and the
\* other has now been answered "expired".
C2_Witness ==
    /\ last.op = "consume"
    /\ last.body = [error |-> "expired"]
    /\ \E w \in winners : last.rid \in w.rivals

\* Every live entry has its expiry timer pending, due at most TOKEN_TTL from now.
TimerArmed ==
    \A id \in DOMAIN tokens : id \in DOMAIN timers /\ timers[id] <= now + TOKEN_TTL

\* The timer callback of an id removes its entry, and a consume or a peek
\* handled once the callback has run is answered not-found.
ExpiryStep ==
    /\ \A id \in DOMAIN timers : id \notin DOMAIN timers' => id \notin DOMAIN tokens'
    /\ \A r \in pending :
         (Handled(r) /\ TimerRan(r.arg)) =>
            /\ r.op = "consume" => last' = Expired(r)
            /\ r.op = "peek" => last' = Response(r, 404, [page |-> "expired"])

\* C3 (TTL expiry): every stored token keeps an expiry timer due TOKEN_TTL
\* after it was stored; when the timer's callback runs it removes the entry,
\* and every consume and every peek handled after that is answered not-found,
\* also when the token was never read.
C3_TTLExpiry == []TimerArmed /\ [][ExpiryStep]_vars

\* A token was stored and never consumed, its timer ran, and the consume that
\* followed was answered "expired".
C3_Witness ==
    /\ last.op = "consume"
    /\ last.body = [error |-> "expired"]
    /\ TimerRan(last.arg)
    /\ ~HasWinner(last.arg)

\* C4 (peek does not consume): GET /t/:id changes neither the token map nor
\* the timers; an entry leaves the map only in a consume answered with its
\* payload or in its timer callback; so the first consume of a stored id
\* whose timer has not run is answered with the payload that was stored,
\* however many peeks came before.
C4_PeekKeeps ==
    [][/\ \A r \in pending :
            (Handled(r) /\ r.op = "peek") => tokens' = tokens /\ timers' = timers
       /\ \A id \in DOMAIN tokens :
            id \notin DOMAIN tokens' =>
               \/ last'.op = "expire" /\ last'.arg = id
               \/ last'.op = "consume" /\ last'.arg = id
                    /\ last'.body = [token |-> issued[id]]
       /\ \A r \in pending :
            (Handled(r) /\ r.op = "consume" /\ r.arg \in DOMAIN issued
               /\ ~HasWinner(r.arg) /\ ~TimerRan(r.arg))
            => last' = Response(r, 200, [token |-> issued[r.arg]])]_vars

\* A consume was answered with the stored payload after the id had been peeked.
C4_Witness ==
    /\ last.op = "consume"
    /\ last.arg \in peeked
    /\ last.arg \in DOMAIN issued
    /\ last.body = [token |-> issued[last.arg]]

(***************************************************************************)
(* Properties of the signaling relay.                                      *)
(***************************************************************************)
\* This step is the message handler run for the text raw from connection c.
MessageStep(c, raw) == nmsg' = nmsg + 1 /\ relayLast' = [conn |-> c, raw |-> raw]

IsType(raw, t) == raw.json = "object" /\ raw.type = t

LastSent(c) == IF outbox[c] = <<>> THEN Undefined ELSE outbox[c][Len(outbox[c])].type

\* C5 as claimed (ICE fan-out to the whole connection set): an ice-candidate
\* from a connection is sent once to every other connection in the set and
\* to no one else.
C5_FanOutWholeSet ==
    [][\A c \in Conns, raw \in RawMessages :
         (MessageStep(c, raw) /\ IsType(raw, "ice-candidate")) =>
            \A d \in Conns :
               outbox'[d] = IF d \in clients \ {c}
                            THEN Append(outbox[d], Msg("ice-candidate", raw.value))
                            ELSE outbox[d]]_vars

\* C5, amended (ICE fan-out to the open connections): an ice-candidate from
\* a connection is sent once, with its candidate, to every other connection
\* of the set whose readyState is OPEN; the sender, and a connection that is
\* still in the set while closing, are sent nothing.
C5_FanOutOpen ==
    [][\A c \in Conns, raw \in RawMessages :
         (MessageStep(c, raw) /\ IsType(raw, "ice-candidate")) =>
            /\ c \in clients
            /\ \A d \in Conns :
                 outbox'[d] = IF d \in clients \ {c} /\ readyState[d] = "OPEN"
                              THEN Append(outbox[d], Msg("ice-candidate", raw.value))
                              ELSE outbox[d]]_vars

\* The last message was an ice-candidate handled with three connections in
\* the set: an open one got it, the sender and a closing one did not.
C5_Witness ==
    /\ nmsg = 1
    /\ IsType(relayLast.raw, "ice-candidate")
    /\ clients = Conns
    /\ LastSent(relayLast.conn) = "connected"
    /\ \E d \in Conns : readyState[d] = "OPEN" /\ LastSent(d) = "ice-candidate"
    /\ \E e \in Conns : readyState[e] = "CLOSING" /\ LastSent(e) = "connected"

\* C6 (echo to the sender only): an offer (an answer) is answered with one
\* offer-created (answer-created) carrying the same description, sent to the
\* connection it came from; no other connection is sent anything, and the
\* connection set, the readyStates and the token store stay as they were.
C6_EchoToSender ==
    [][\A c \in Conns, raw \in RawMessages :
         /\ (MessageStep(c, raw) /\ IsType(raw, "offer")) =>
               /\ outbox' = Send(outbox, c, Msg("offer-created", raw.value))
               /\ UNCHANGED <<clients, readyState, tokens, timers>>
         /\ (MessageStep(c, raw) /\ IsType(raw, "answer")) =>
               /\ outbox' = Send(outbox, c, Msg("answer-created", raw.value))
               /\ UNCHANGED <<clients, readyState, tokens, timers>>]_vars

\* An offer was echoed to its sender while another connection was open, which
\* still has only its welcome.
C6_Witness ==
    /\ nmsg = 1
    /\ IsType(relayLast.raw, "offer")
    /\ relayLast.raw.value = "desc-1"
    /\ outbox[relayLast.conn] = <<Welcome, Msg("offer-created", "desc-1")>>
    /\ \E d \in clients \ {relayLast.conn} : readyState[d] = "OPEN" /\ outbox[d] = <<Welcome>>

\* Texts that are not a tagged record: not JSON, or JSON that is not an
\* object with a type.
Malformed(raw) == raw.json # "object" \/ raw.type = Undefined

\* The malformed texts on which the try block throws.
MakesThrow(raw) == raw.json \in {"invalid", "null"}

\* C7 as claimed (malformed input): the relay stays up, the sender stays in
\* the set and open, no other connection is sent anything, and the sender is
\* sent one error message.
C7_MalformedAnswered ==
    [][\A c \in Conns, raw \in RawMessages :
         (MessageStep(c, raw) /\ Malformed(raw)) =>
            /\ relayUp'
            /\ c \in clients' /\ readyState'[c] = "OPEN"
            /\ outbox' = Send(outbox, c, ErrorMsg)]_vars

\* C7, amended: on a malformed text the relay stays up, the sender stays in
\* the set and open, and no other connection is sent anything; the sender is
\* sent one error message when the try block throws (text that is not JSON,
\* JSON null) on the index.js relay, and nothing otherwise: JSON without a
\* type that parses is an unknown type, and the part_001 relay only logs.
C7_MalformedKept ==
    [][\A c \in Conns, raw \in RawMessages :
         (MessageStep(c, raw) /\ Malformed(raw)) =>
            /\ relayUp'
            /\ clients' = clients /\ c \in clients'
            /\ readyState' = readyState /\ readyState'[c] = "OPEN"
            /\ outbox' = IF server = "index.js" /\ MakesThrow(raw)
                         THEN Send(outbox, c, ErrorMsg) ELSE outbox]_vars

\* Text that is not JSON came from a connection of the index.js relay, which
\* was sent an error and is still open and in the set beside another one.
C7_Witness ==
    /\ server = "index.js"
    /\ relayLast.raw.json = "invalid"
    /\ relayUp
    /\ relayLast.conn \in clients
    /\ readyState[relayLast.conn] = "OPEN"
    /\ LastSent(relayLast.conn) = "error"
    /\ \E d \in clients \ {relayLast.conn} : outbox[d] = <<Welcome>>

\* The set holds only connections that connected and whose close and error
\* handlers have not run.
OnlyLiveClients ==
    /\ \A c \in clients : readyState[c] \in {"OPEN", "CLOSING"}
    /\ clients \cap DOMAIN gone = {}

\* A close or error handler leaves its connection out of the set, and a
\* connection whose handler has run is sent nothing any more.
GoneStaysOut ==
    /\ \A c \in DOMAIN gone' : c \notin clients'
    /\ \A c \in DOMAIN gone : outbox'[c] = outbox[c]

\* C8 (disconnect removes the connection): after the close or error event of
\* a connection it is not in the connection set and nothing is sent to it by
\* any later broadcast; the set always holds only connections that connected
\* and have neither closed nor errored.
C8_DisconnectRemoves == []OnlyLiveClients /\ [][GoneStaysOut]_vars

\* An ice-candidate was broadcast to an open connection after another
\* connection had closed or errored; the one that left has only its welcome.
C8_Witness ==
    /\ IsType(relayLast.raw, "ice-candidate")
    /\ \E d \in clients : LastSent(d) = "ice-candidate"
    /\ \E c \in DOMAIN gone : gone[c] < nmsg /\ outbox[c] = <<Welcome>>

(***************************************************************************)
(* Properties of the chunked transfer.                                     *)
(***************************************************************************)
\* The channel has delivered one metadata message and then only binary
\* chunks, at least one, whose lengths sum to the declared size.
OneFileDelivered ==
    /\ Len(delivered) >= 2
    /\ delivered[1].kind = "string"
    /\ delivered[1].json = "object"
    /\ \A i \in 2 .. Len(delivered) : delivered[i].kind = "binary"
    /\ BlobSize(Tail(delivered)) = delivered[1].size

\* Completion has fired once, on the last chunk delivered, with an artifact
\* of the declared size.
CompletedOnceAtLast ==
    /\ Len(downloads) = 1
    /\ downloads[1].after = Len(delivered)
    /\ downloads[1].size = delivered[1].size

\* C9 (receiver completion): after one metadata message of size S and any
\* binary chunks, at least one, whose lengths sum to S, completion has fired
\* exactly once, on the last chunk and not before, with an artifact of S
\* bytes.
C9_CompletesOnLastChunk == OneFileDelivered => CompletedOnceAtLast

\* The number of frames a file is cut into: one empty frame for an empty file.
NumChunks(file) ==
    IF file.size = 0 THEN 1 ELSE (file.size + chunkSize - 1) \div chunkSize

\* The frames of a file: frame i holds the bytes from (i-1)*chunkSize up to
\* i*chunkSize, the last one up to the end of the file.
Framing(file) ==
    [i \in 1 .. NumChunks(file) |->
       [kind |-> "binary", file |-> file.name,
        lo |-> (i - 1) * chunkSize,
        hi |-> IF i * chunkSize < file.size THEN i * chunkSize ELSE file.size]]

Lengths(frames) == [i \in 1 .. Len(frames) |-> ByteLength(frames[i])]

\* The run of sendFiles has ended without an exception.
RunComplete == reads = EmptyMap /\ txErrors = 0

\* C10 (sender framing): in a single run of sendFiles the messages sent are
\* always a prefix of: the metadata message, then the frames of the file in
\* offset order, each chunkSize long but the last; when the run has ended
\* all of them have been sent, their lengths sum to the file's size, for
\* 40000 bytes they are 16384, 16384 and 7232, and nothing follows the last.
C10_SenderFraming ==
    nshares = 1 =>
       LET all == <<Metadata(currentFile)>> \o Framing(currentFile) IN
       /\ Len(sent) >= 1
       /\ Len(sent) <= Len(all)
       /\ sent = SubSeq(all, 1, Len(sent))
       /\ \A i \in 2 .. Len(sent) :
             /\ ByteLength(sent[i]) <= chunkSize
             /\ i < Len(all) => ByteLength(sent[i]) = chunkSize
             /\ sent[i].lo = (i - 2) * chunkSize
       /\ RunComplete =>
             /\ sent = all
             /\ BlobSize(Tail(sent)) = currentFile.size
             /\ offset = currentFile.size
             /\ currentFile.size = 40000 => Lengths(Tail(sent)) = <<16384, 16384, 7232>>

\* The single run for the file of 40000 bytes has ended: four messages sent.
C10_Witness ==
    /\ nshares = 1
    /\ currentFile # Null
    /\ currentFile.size = 40000
    /\ RunComplete
    /\ Len(sent) = 4
    /\ txStatus = "File sent!"

\* The handler of the data channel's message event has run once more.
RxStep == Len(delivered') = Len(delivered) + 1

\* The message that step handled.
RxEvent == delivered'[Len(delivered')]

\* No string message has been delivered so far.
NoStringYet == \A i \in 1 .. Len(delivered) : delivered[i].kind = "binary"

\* C11 (chunk before metadata): a binary message that arrives when no string
\* message has arrived fires no completion and raises no error, and a
\* metadata message that arrives after only such chunks starts a transfer
\* from empty counters.
C11_ChunkBeforeMetadata ==
    [][(RxStep /\ NoStringYet) =>
         /\ RxEvent.kind = "binary" =>
               /\ downloads' = downloads
               /\ rxErrors' = rxErrors
         /\ (RxEvent.kind = "string" /\ RxEvent.json = "object") =>
               /\ fileMetadata' = [name |-> RxEvent.name, size |-> RxEvent.size]
               /\ receivedSize' = 0
               /\ receivedChunks' = <<>>]_vars

\* The positions in what was delivered of the messages that parse as
\* metadata.
MetadataAt(msgs) ==
    {i \in 1 .. Len(msgs) : msgs[i].kind = "string" /\ msgs[i].json = "object"}

Latest(S) == CHOOSE i \in S : \A j \in S : j <= i

\* The bytes of the binary messages delivered after position i.
RECURSIVE BytesAfter(_, _)
BytesAfter(msgs, i) ==
    IF i >= Len(msgs) THEN 0
    ELSE (IF msgs[i + 1].kind = "binary" THEN ByteLength(msgs[i + 1]) ELSE 0)
         + BytesAfter(msgs, i + 1)

\* Counted on the channel: the bytes delivered since the most recent metadata
\* equal the size it declared.
CountEqualsDeclared(msgs) ==
    /\ MetadataAt(msgs) # {}
    /\ BytesAfter(msgs, Latest(MetadataAt(msgs))) = msgs[Latest(MetadataAt(msgs))].size

\* C12 (exact byte accounting): completion fires only on a message that
\* brings the bytes delivered since the most recent metadata to exactly the
\* size that metadata declared; a message that leaves the count below it,
\* or above it, fires none.
C12_ExactAccounting ==
    [][RxStep =>
         /\ Len(downloads') \in {Len(downloads), Len(downloads) + 1}
         /\ downloads' # downloads =>
               /\ RxEvent.kind = "binary"
               /\ CountEqualsDeclared(delivered')
               /\ downloads'[Len(downloads')].size = delivered'[Latest(MetadataAt(delivered'))].size
         /\ ~CountEqualsDeclared(delivered') => downloads' = downloads]_vars

\* Two bytes were declared; a chunk of one byte fired nothing, the second
\* completed the file.
C12_Witness ==
    /\ Len(delivered) = 3
    /\ delivered[1].kind = "string"
    /\ delivered[1].json = "object"
    /\ delivered[1].size = 2
    /\ delivered[2].kind = "binary"
    /\ delivered[3].kind = "binary"
    /\ Len(downloads) = 1
    /\ downloads[1].after = 3
    /\ receivedSize = 2

\* Completion fired on the last message delivered.
JustCompleted ==
    /\ downloads # <<>>
    /\ downloads[Len(downloads)].after = Len(delivered)

\* C18 (receiver reset after completion): right after completion fires the
\* receiver holds no metadata, a running total of 0 and no buffers, and a
\* binary message that arrives next is neither counted nor buffered.
C18_ResetAfterCompletion ==
    /\ JustCompleted =>
          /\ fileMetadata = Null
          /\ receivedSize = 0
          /\ receivedChunks = <<>>
    /\ (/\ downloads # <<>>
        /\ downloads[Len(downloads)].after = Len(delivered) - 1
        /\ delivered[Len(delivered)].kind = "binary") =>
          /\ receivedSize = 0
          /\ receivedChunks = <<>>

\* C19 (metadata always resets accumulation): every string message sets the
\* running total to 0 and the buffer list to empty and, when it parses,
\* replaces the declared metadata; every binary message appends one buffer
\* at the end of the list and adds its length to the running total.
C19_MetadataResets ==
    [][RxStep =>
         /\ RxEvent.kind = "string" =>
               /\ receivedSize' = 0
               /\ receivedChunks' = <<>>
               /\ RxEvent.json = "object" =>
                     fileMetadata' = [name |-> RxEvent.name, size |-> RxEvent.size]
         /\ RxEvent.kind = "binary" =>
               /\ receivedChunks' = Append(receivedChunks, RxEvent)
               /\ receivedSize' = receivedSize + ByteLength(RxEvent)]_vars

\* The step is the run of the /store handler for request r.
StoreHandled(r) == r \in pending /\ r.op = "store" /\ pending' = pending \ {r}

\* C17 (store rejects a missing token): POST /store without a token (absent
\* or empty) answers 400 and leaves the token map and the timers as they
\* were; every other POST /store answers 200 with an id that was not in the
\* map, and the map differs only by mapping that id to the submitted payload,
\* with one timer armed for it.
C17_StoreRejectsMissing ==
    [][\A r \in pending : StoreHandled(r) =>
         IF r.arg \in {Undefined, ""}
         THEN /\ last'.status = 400
              /\ tokens' = tokens
              /\ timers' = timers
         ELSE /\ last'.status = 200
              /\ \E id \in Ids :
                    /\ last'.body = [id |-> id]
                    /\ id \notin DOMAIN tokens
                    /\ DOMAIN tokens' = DOMAIN tokens \cup {id}
                    /\ tokens'[id] = r.arg
                    /\ \A k \in DOMAIN tokens : tokens'[k] = tokens[k]
                    /\ DOMAIN timers' = DOMAIN timers \cup {id}]_vars

\* A POST /store without a token was answered 400 while the map held an
\* entry.
C17_Witness ==
    /\ last.op = "store"
    /\ last.status = 400
    /\ last.arg \in {Undefined, ""}
    /\ tokens # EmptyMap

\* The position of the metadata message that the message at position i of
\* what was sent follows.
MetadataBefore(i) == Latest({j \in MetadataAt(sent) : j < i})

\* C20 (single-flight ordered sending): whatever the share clicks and read
\* completions, at most one slice read is outstanding, the outstanding read
\* is of the slice that starts where the chunks sent so far end, and every
\* chunk sent is a slice of the file of the metadata message it follows,
\* starting at 0 right after the metadata and otherwise where the chunk sent
\* before it ended.
C20_SingleFlight ==
    /\ Cardinality(DOMAIN reads) <= 1
    /\ \A i \in 1 .. Len(sent) : sent[i].kind = "binary" =>
          /\ sent[i].file = sent[MetadataBefore(i)].name
          /\ sent[i].lo = IF MetadataBefore(i) = i - 1 THEN 0 ELSE sent[i - 1].hi
    /\ \A k \in DOMAIN reads :
          /\ reads[k].file = sent[Latest(MetadataAt(sent))].name
          /\ reads[k].lo = BytesAfter(sent, Latest(MetadataAt(sent)))

(***************************************************************************)
(* Properties of the /signal store.                                        *)
(***************************************************************************)
\* The entry with timer t is in the map.
SignalLive(store, t) == \E k \in DOMAIN store : store[k].timeout = t

\* C16 (/signal obeys the token contract): GET /signal/:token answers the
\* stored sdp of an entry at most once and 404 when the token names no
\* entry; an entry leaves the map only by the read that answers its sdp or
\* by the callback of its own expiry timer, never by a later POST /signal
\* or by the timer of an earlier entry.
C16_SignalContract ==
    /\ [](\A t \in 1 .. MaxSignals : sigServed[t] <= 1)
    /\ [][\A t \in 1 .. MaxSignals :
            (SignalLive(SIGNAL_STORE, t) /\ ~SignalLive(SIGNAL_STORE', t)) =>
               \/ sigLast'.op = "get" /\ sigLast'.status = 200 /\ sigServed'[t] = 1
               \/ sigLast'.op = "expire" /\ sigLast'.timer = t]_vars
    /\ [][(sigLast'.op = "get" /\ sigLast' # sigLast /\ sigLast'.token \notin DOMAIN SIGNAL_STORE)
            => sigLast'.status = 404]_vars

(***************************************************************************)
(* Properties of the handshake.                                            *)
(***************************************************************************)
LinkTo(id) == [kind |-> "link", value |-> id]

\* The token of the short link is live and holds the given text.
LiveLink(id, text) == id \in DOMAIN tokens /\ tokens[id] = text

\* The tab has made an offer and awaits the answer.
AwaitsAnswer(t) ==
    /\ peerConnection[t] # Null
    /\ peerConnection[t].local = "offer"
    /\ peerConnection[t].remote = "none"

\* C13 (short-link dereference): the responder flow given the short link of
\* a live token that holds an offer ends with the offer as the remote
\* description of a connection, an answer as its local description and the
\* answer about to be published; the connect action of a tab that awaits an
\* answer, given the short link of a live token that holds an answer, ends
\* with the answer as the remote description.
C13_ShortLinkResolved ==
    [][\A t \in Tabs, id \in Ids :
         /\ (LiveLink(id, "OFFER_SDP_X") /\ Respond(t, LinkTo(id))) =>
               /\ peerConnection'[t] # Null
               /\ peerConnection'[t].remote = "offer"
               /\ peerConnection'[t].local = "answer"
               /\ waiting'[t] = "answer"
         /\ (LiveLink(id, "ANSWER_SDP_Y") /\ AwaitsAnswer(t) /\ ConnectClick(t, LinkTo(id))) =>
               peerConnection'[t].remote = "answer"]_vars

\* The tab handles an ice-candidate message of the relay that carries cand.
HandlesCandidate(t, cand) ==
    /\ \E stored \in StoreReplies : WsMessage(t, stored)
    /\ NextMessage(t).type = "ice-candidate"
    /\ NextMessage(t).value = cand

\* C14 (late candidate end to end): when the wait of the initiator ends by
\* timeout the offer is still sent to the relay; a candidate found after
\* that goes to the relay as ice-candidate and from there to the other tab;
\* and the other tab, handling it, applies it to its connection.
C14_LateCandidateApplied ==
    [][\A t \in Tabs :
         /\ (waiting[t] = "offer" /\ GatherTimeout(t)) =>
               relayLast' = [conn |-> t, raw |-> DescriptionMessage("offer", peerConnection[t])]
         /\ (waiting[t] = "none" /\ IceCandidate(t)) =>
               outbox'[Other(t)] = Append(outbox[Other(t)], Msg("ice-candidate", "cand-2"))
         /\ HandlesCandidate(t, "cand-2") =>
               /\ peerConnection'[t] # Null
               /\ "cand-2" \in peerConnection'[t].applied]_vars

\* The Peer Session of a tab: role flag, connection object with its local
\* and remote descriptions, data channel.
Session(t) == <<isInitiator[t], peerConnection[t], dataChannel[t]>>

\* The token texts that do not parse, or parse to something that is not a
\* valid offer.
NotAnOffer == {"ANSWER_SDP_Y", "BAD_OFFER", "null", "garbage"}

\* The token texts that do not parse, or parse to something whose type is
\* not answer.
NotAnAnswer == {"OFFER_SDP_X", "BAD_OFFER", "null", "garbage"}

\* C15 (rejected input does not advance the handshake): the responder flow
\* given a text that is unparseable or not a valid offer, and the connect
\* action given a text that is unparseable or not of type answer, show an
\* error, leave the Peer Session of the tab as it was and send nothing to
\* the relay.
C15_RejectedInputKeepsSession ==
    [][\A t \in Tabs :
         /\ \A text \in NotAnOffer :
               Respond(t, [kind |-> "text", value |-> text]) =>
                  /\ statusMessage'[t].kind = "error"
                  /\ Session(t)' = Session(t)
                  /\ UNCHANGED <<nmsg, outbox>>
         /\ \A text \in NotAnAnswer :
               ConnectClick(t, [kind |-> "text", value |-> text]) =>
                  /\ statusMessage'[t].kind = "error"
                  /\ Session(t)' = Session(t)
                  /\ UNCHANGED <<nmsg, outbox>>]_vars

(***************************************************************************)
(* Properties of the transfer, continued.                                  *)
(***************************************************************************)
\* The step passes a metadata message to dataChannel.send.
EmitsMetadata == Len(sent') > Len(sent) /\ sent'[Len(sent')].kind = "string"

\* C21 (transfer gated on the open channel): a metadata message is emitted
\* only from a state where the data channel is open and a file is selected;
\* a share click in any other state sends nothing and leaves the current
\* file, the offset and the reads as they were; the share button is enabled
\* only once the channel's open event has run, and applying an answer while
\* the channel is not open leaves it disabled.
C21_GatedOnOpenChannel ==
    /\ [](~shareDisabled => dcState \in {"open", "closing"})
    /\ [][/\ EmitsMetadata => (dcState = "open" /\ selectedFiles # <<>>)
          /\ (ShareClick /\ ~(dcState = "open" /\ selectedFiles # <<>>)) =>
                UNCHANGED <<sent, currentFile, offset, fileReader, reads>>
          /\ (ApplyAnswer /\ dcState # "open") => UNCHANGED shareDisabled]_vars

\* An answer was applied, a file chosen, and the channel has not opened:
\* the share button is still disabled and nothing was sent.
C21_Witness ==
    /\ dcState = "connecting"
    /\ ~fileInputDisabled
    /\ selectedFiles # <<>>
    /\ shareDisabled
    /\ sent = <<>>

\* The buffers are, in order and without gap or overlap, the bytes 0 .. size
\* of the file of that name.
IsContentOf(parts, name, size) ==
    /\ \A i \in 1 .. Len(parts) :
          /\ parts[i].file = name
          /\ parts[i].lo = IF i = 1 THEN 0 ELSE parts[i - 1].hi
    /\ IF parts = <<>> THEN size = 0 ELSE parts[Len(parts)].hi = size

\* C27 (end-to-end integrity under re-entrant share): every artifact the
\* receiver has completed is, byte for byte, the file its metadata message
\* announced, whatever the share clicks of the sender.
C27_ArtifactIsTheFile ==
    \A i \in 1 .. Len(downloads) :
       /\ delivered[Latest({j \in MetadataAt(delivered) : j < downloads[i].after})].name
             = downloads[i].name
       /\ IsContentOf(downloads[i].parts, downloads[i].name,
             delivered[Latest({j \in MetadataAt(delivered) : j < downloads[i].after})].size)

\* C28 (zero-byte file): in a single run for a file of size 0 the sender
\* emits the metadata message and then one empty binary frame, and nothing
\* after it; the receiver has not completed before the frame arrives and
\* has completed exactly once, with an artifact of length 0, when it has.
C28_ZeroByteFile ==
    (nshares = 1 /\ currentFile # Null /\ currentFile.size = 0) =>
       /\ Len(sent) <= 2
       /\ RunComplete =>
             /\ sent = <<Metadata(currentFile), Slice(currentFile, 0, chunkSize)>>
             /\ ByteLength(sent[2]) = 0
       /\ Len(delivered) < 2 => downloads = <<>>
       /\ Len(delivered) = 2 =>
             /\ Len(downloads) = 1
             /\ downloads[1].size = 0
             /\ downloads[1].after = 2

\* The empty file has been sent and received.
C28_Witness ==
    /\ nshares = 1
    /\ currentFile # Null
    /\ currentFile.size = 0
    /\ RunComplete
    /\ Len(delivered) = 2
    /\ Len(downloads) = 1
    /\ downloads[1].size = 0
    /\ rxStatus = "File received!"

(***************************************************************************)
(* Properties of the handshake, continued.                                 *)
(***************************************************************************)
\* The relay handles a description that the tab has sent in this step.
SendsDescription(t) ==
    /\ nmsg' = nmsg + 1
    /\ relayLast'.conn = t
    /\ relayLast'.raw.type \in {"offer", "answer"}

\* The descriptions the tab has sent, as the relay has echoed them to it.
Echoed(t) ==
    {i \in 1 .. Len(outbox[t]) : outbox[t][i].type \in {"offer-created", "answer-created"}}

\* C22 (bounded gathering wait): a tab sends a description only in the step
\* that ends the wait of the connection the description belongs to, which
\* is the step where the gathering of that connection reaches complete or
\* the step of its timeout; the description is the local description of
\* that attempt; and no description is sent twice.
C22_BoundedGatheringWait ==
    /\ [](\A t \in Tabs : \A i, j \in Echoed(t) :
             outbox[t][i].value = outbox[t][j].value => i = j)
    /\ [][\A t \in Tabs :
            SendsDescription(t) =>
               /\ waiting[t] # "none"
               /\ waiting'[t] = "none"
               /\ relayLast'.raw = DescriptionMessage(waiting[t], peerConnection[t])
               /\ peerConnection[t].local = waiting[t]
               /\ peerConnection'[t].gathering = "complete" \/ GatherTimeout(t)]_vars

\* The connection of the tab finds a candidate in this step.
Discovers(t) ==
    /\ peerConnection[t] # Null
    /\ peerConnection'[t] # Null
    /\ peerConnection'[t].id = peerConnection[t].id
    /\ peerConnection'[t].found = peerConnection[t].found + 1

\* C23 (trickle of every candidate): in the step where the connection of a
\* tab finds a candidate, during the wait or after it, the relay handles
\* one ice-candidate message of that tab and passes it to the other tab;
\* the step where gathering completes passes no ice-candidate message.
C23_EveryCandidateTrickled ==
    [][\A t \in Tabs :
         /\ Discovers(t) =>
               /\ nmsg' = nmsg + 1
               /\ relayLast'.conn = t
               /\ relayLast'.raw.type = "ice-candidate"
               /\ outbox'[Other(t)] =
                     Append(outbox[Other(t)], Msg("ice-candidate", relayLast'.raw.value))
         /\ GatheringComplete(t) =>
               \A u \in Tabs :
                  \/ outbox'[u] = outbox[u]
                  \/ outbox'[u][Len(outbox'[u])].type # "ice-candidate"]_vars

\* A candidate found after the wait had ended has reached the other tab.
C23_Witness ==
    /\ peerConnection["ws1"] # Null
    /\ peerConnection["ws1"].found = 1
    /\ waiting["ws1"] = "none"
    /\ Len(outbox["ws1"]) = 2
    /\ outbox["ws1"][2].type = "offer-created"
    /\ Len(outbox["ws2"]) = 2
    /\ outbox["ws2"][2] = Msg("ice-candidate", "cand-2")

\* C24 (no candidate queue): a tab that handles an ice-candidate message
\* while it holds no connection keeps its Peer Session and its status, and
\* sends nothing; a connection starts with no candidate applied, and a
\* candidate is added to it only in the step that handles the message of
\* that candidate.
C24_NoCandidateQueue ==
    [][\A t \in Tabs :
         /\ \A cand \in {"cand-1", "cand-2"} :
               (HandlesCandidate(t, cand) /\ peerConnection[t] = Null) =>
                  /\ Session(t)' = Session(t)
                  /\ statusMessage'[t] = statusMessage[t]
                  /\ wsRead'[t] = wsRead[t] + 1
                  /\ UNCHANGED <<nmsg, outbox, waiting, orphans>>
         /\ peerConnection'[t] # Null =>
               IF peerConnection[t] = Null \/ peerConnection[t].id # peerConnection'[t].id
               THEN peerConnection'[t].applied = {}
               ELSE \/ peerConnection'[t].applied = peerConnection[t].applied
                    \/ \E cand \in {"cand-1", "cand-2"} :
                          /\ HandlesCandidate(t, cand)
                          /\ peerConnection'[t].applied = peerConnection[t].applied \cup {cand}]_vars

\* The second tab has handled a candidate of the first while it held no
\* connection, and has then answered an offer: its connection has a remote
\* description and no candidate.
C24_Witness ==
    /\ wsRead["ws2"] = 2
    /\ outbox["ws2"][2].type = "ice-candidate"
    /\ npc["ws2"] = 1
    /\ peerConnection["ws2"] # Null
    /\ peerConnection["ws2"].remote = "offer"
    /\ peerConnection["ws2"].applied = {}

\* C25 (one active Peer Session per tab): an ice-candidate message of a tab
\* reaches the relay only in a step where the connection the tab holds has
\* found a candidate.
C25_OnlyCurrentConnectionEmits ==
    [][\A t \in Tabs :
         (nmsg' = nmsg + 1 /\ relayLast'.conn = t /\ relayLast'.raw.type = "ice-candidate")
            => Discovers(t)]_vars

\* C26 (shortening fallback): a tab that handles offer-created or
\* answer-created keeps its Peer Session; when POST /store has failed the
\* token it shows is the text of the description the message carries, and
\* the text of the tab's own description parses back to a valid description
\* of its type; when POST /store has succeeded the token is the short link
\* of the id the store returned.
C26_ShorteningFallback ==
    [][\A t \in Tabs, stored \in StoreReplies :
         (WsMessage(t, stored) /\ NextMessage(t).type \in {"offer-created", "answer-created"}) =>
            /\ Session(t)' = Session(t)
            /\ UNCHANGED <<waiting, orphans, nmsg, outbox>>
            /\ IF stored.ok
               THEN tokenInput'[t] = LinkTo(stored.id)
               ELSE /\ tokenInput'[t] = [kind |-> "text", value |-> Serialize(NextMessage(t).value)]
                    /\ (NextMessage(t).value # "null"
                           /\ NextMessage(t).value = DescriptionOf(peerConnection[t])) =>
                          /\ ~ParseToken(tokenInput'[t].value).threw
                          /\ ParseToken(tokenInput'[t].value).value.sdp = "valid"
                          /\ ParseToken(tokenInput'[t].value).value.type =
                                peerConnection[t].local]_vars

\* The store has failed and the first tab shows the text of its offer.
C26_Witness ==
    /\ tokenInput["ws1"] = [kind |-> "text", value |-> "OFFER_SDP_X"]
    /\ statusMessage["ws1"] = ShowStatus("Failed to shorten token", "error")
    /\ peerConnection["ws1"] # Null
    /\ peerConnection["ws1"].local = "offer"

====
